---- MODULE Spec2Model ----
(***************************************************************************)
(* PhysicsSystem (src/unnamed/part_000): body/collider registry, the        *)
(* collision matrix, the integration step, the collision pass with its     *)
(* callbacks, and the two resolvers; the Engine, the example scene and the *)
(* AudioManager around it.                                                 *)
(*                                                                         *)
(* Numbers.  Every JavaScript number is an IEEE 754 binary64 and is kept   *)
(* as one: a record [s, m, e] standing for (-1)^s * m * 2^e.  Each         *)
(* operation of the source is the operator that rounds as the machine      *)
(* does (FAdd, FSub, FMul, FDiv, FSqrt), applied in the order of the       *)
(* source; a decimal literal such as 0.3 is FromRatio(3, 10), the double   *)
(* nearest to it.                                                          *)
(*                                                                         *)
(* Objects.  Bodies and colliders are JavaScript objects, compared by      *)
(* identity: the model gives each created object a handle (1, 2, ...) and  *)
(* keeps the objects' fields in body[h] / coll[h]; this.bodies and         *)
(* this.colliders are sequences of handles, in which a handle may occur    *)
(* more than once.  Ids are strings, "body_0" for `body_${0}`.             *)
(***************************************************************************)
EXTENDS Integers, Sequences, FiniteSets, TLC

VARIABLES
  gravity,          \* this.gravity
  timeScale,        \* this.timeScale
  bodies,           \* this.bodies: sequence of body handles
  colliders,        \* this.colliders: sequence of collider handles
  collisionMatrix,  \* this.collisionMatrix: row id -> (column id -> BOOLEAN)
  body,             \* the body objects ever created: handle -> fields
  coll,             \* the collider objects ever created: handle -> fields
  last,             \* the last call made on the system and what it did
  engine,           \* the Engine that owns the system, and its animation frames
  hist,             \* per live (body, other) pair: did they overlap when last evaluated
  heard,            \* per (body, collider) pair: the Enter the collider was given last
  born,             \* per body handle: its fields as createBody returned them
  reused,           \* body handles registered under an id that removeBody had purged
  purged,           \* ids that removeBody has purged from the matrix
  steps,            \* number of update calls that ran a step
  pushes,           \* number of applyForce / applyImpulse calls made
  removals,         \* number of removeBody / removeCollider calls that removed an object
  budget            \* how many calls of each kind the modelled run may make

vars == <<gravity, timeScale, bodies, colliders, collisionMatrix, body, coll,
          last, hist, heard, born, reused, purged, steps, pushes, removals, budget, engine>>

----------------------------------------------------------------------------
(* Bounds of the model *)

MaxBodies == 3
MaxColliders == 3
MaxObjects == 4
MaxSteps == 4
MaxPos == 6
MaxVel == 4
MaxPushes == 1
MaxRemovals == 1
MaxAdds == 3

MaxFrames == 3

MaxStarts == 3

MaxSceneFrames == 2

MaxSceneStarts == 2

MaxAudioCalls == 2

MaxAudioChanges == 1

Abs(n) == IF n < 0 THEN -n ELSE n

Min(a, b) == IF a < b THEN a ELSE b

Max(a, b) == IF a < b THEN b ELSE a

----------------------------------------------------------------------------
(* JavaScript numbers.  A number is an IEEE 754 binary64: the operators
   below compute what +, -, *, / and Math.sqrt return, bit for bit, with
   rounding to nearest, ties to even.  A natural number of any size is the
   sequence of its digits in base 2^15, lowest first, the highest not 0; a
   double is (-1)^s * m * 2^e with m = 0 or 2^52 <= m < 2^53.  Infinities,
   NaN, subnormals and the sign of zero are left out: InRange tells that a
   value needs none of them. *)

Base == 2 ^ 15

Digit(a, i) == IF i \in 1..Len(a) THEN a[i] ELSE 0

(* the index of the highest digit of a that is not 0, or 0 *)
Top(a) ==
  IF \A i \in 1..Len(a) : a[i] = 0 THEN 0
  ELSE CHOOSE i \in 1..Len(a) : a[i] # 0 /\ \A j \in (i + 1)..Len(a) : a[j] = 0

BigTrim(a) == SubSeq(a, 1, Top(a))

(* w[i] = the low digit of v[i] plus the high part of v[i - 1], for column
   values v[i] < 2^30: the same number, in columns below 2 * Base - 1 *)
Pass(v) ==
  SubSeq([i \in 1..(Len(v) + 1) |-> (Digit(v, i) % Base) + (Digit(v, i - 1) \div Base)],
         1, Len(v) + 1)

(* a carry of 1 enters column i of w, the columns being below 2 * Base - 1:
   a column below i overflows and those in between are Base - 1 or more *)
CarryIn(w, i) ==
  \E j \in 1..(i - 1) : w[j] >= Base /\ \A k \in (j + 1)..(i - 1) : w[k] >= Base - 1

Settled(w) ==
  SubSeq([i \in 1..(Len(w) + 1) |-> (Digit(w, i) + IF CarryIn(w, i) THEN 1 ELSE 0) % Base],
         1, Len(w) + 1)

(* the natural number with the column values v[i] < 2^30: the sum of the
   v[i] * Base^(i - 1) *)
BigOf(v) == BigTrim(Settled(Pass(v)))

BigAdd(a, b) ==
  BigOf(SubSeq([i \in 1..Max(Len(a), Len(b)) |-> Digit(a, i) + Digit(b, i)],
               1, Max(Len(a), Len(b))))

(* a borrow of 1 enters column i of a - b *)
BorrowIn(a, b, i) ==
  \E j \in 1..(i - 1) :
     a[j] < Digit(b, j) /\ \A k \in (j + 1)..(i - 1) : a[k] <= Digit(b, k)

(* a - b for a >= b *)
BigSub(a, b) ==
  BigTrim(SubSeq([i \in 1..Len(a) |->
                    (a[i] - Digit(b, i) - (IF BorrowIn(a, b, i) THEN 1 ELSE 0) + Base) % Base],
                 1, Len(a)))

(* -1, 0 or 1 as a is below, equal to or above b *)
BigCmp(a, b) ==
  IF Len(a) < Len(b) THEN -1
  ELSE IF Len(a) > Len(b) THEN 1
  ELSE IF a = b THEN 0
  ELSE IF \E i \in 1..Len(a) : a[i] < b[i] /\ \A j \in (i + 1)..Len(a) : a[j] = b[j] THEN -1
  ELSE 1

(* a * d for a digit d *)
BigMulDigit(a, d) == BigOf(SubSeq([i \in 1..Len(a) |-> a[i] * d], 1, Len(a)))

(* the low digits of the products a[i] * b[j] with i + j = k + 1 plus the
   high digits of those with i + j = k, for a of four digits at most *)
Column(a, b, k) ==
  ((Digit(a, 1) * Digit(b, k)) % Base) + ((Digit(a, 1) * Digit(b, k - 1)) \div Base)
  + ((Digit(a, 2) * Digit(b, k - 1)) % Base) + ((Digit(a, 2) * Digit(b, k - 2)) \div Base)
  + ((Digit(a, 3) * Digit(b, k - 2)) % Base) + ((Digit(a, 3) * Digit(b, k - 3)) \div Base)
  + ((Digit(a, 4) * Digit(b, k - 3)) % Base) + ((Digit(a, 4) * Digit(b, k - 4)) \div Base)

(* a * b for a of four digits at most *)
BigMul(a, b) ==
  BigOf(SubSeq([k \in 1..(Len(a) + Len(b)) |-> Column(a, b, k)], 1, Len(a) + Len(b)))

RECURSIVE BigDivDigitFrom(_, _, _, _, _)
BigDivDigitFrom(a, d, i, rem, q) ==
  IF i = 0 THEN [q |-> BigTrim(q), r |-> rem]
  ELSE BigDivDigitFrom(a, d, i - 1, (rem * Base + a[i]) % d,
                       <<(rem * Base + a[i]) \div d>> \o q)

(* quotient q and remainder r of a by d, 0 < d <= Base *)
BigDivDigit(a, d) == BigDivDigitFrom(a, d, Len(a), 0, <<>>)

(* a * 2^k *)
BigShl(a, k) ==
  IF a = <<>> THEN a
  ELSE [i \in 1..(k \div 15) |-> 0] \o BigMulDigit(a, 2 ^ (k % 15))

(* a divided by 2^bits, rounded down, for bits < 15 *)
ShrBits(a, bits) ==
  BigTrim(SubSeq([i \in 1..Len(a) |->
                    (a[i] \div (2 ^ bits)) + (Digit(a, i + 1) % (2 ^ bits)) * (2 ^ (15 - bits))],
                 1, Len(a)))

(* q: a divided by 2^k, rounded down; sticky: bits were lost *)
BigShr(a, k) ==
  [q |-> ShrBits(SubSeq(a, k \div 15 + 1, Len(a)), k % 15),
   sticky |-> \/ \E i \in 1..Min(k \div 15, Len(a)) : a[i] # 0
              \/ Digit(a, k \div 15 + 1) % (2 ^ (k % 15)) # 0]

(* the number of bits of the digit n *)
BitLen(n) == CHOOSE k \in 0..15 : n < 2 ^ k /\ (k = 0 \/ n >= 2 ^ (k - 1))

BigBitLen(a) == IF a = <<>> THEN 0 ELSE (Len(a) - 1) * 15 + BitLen(a[Len(a)])

BigOdd(a) == a # <<>> /\ a[1] % 2 = 1

FZero == [s |-> 0, m |-> <<>>, e |-> 0]

IsZero(x) == x.m = <<>>

(* 2^53 and 2^52 *)
TwoTo53 == <<0, 0, 0, 256>>

TwoTo52 == <<0, 0, 0, 128>>

(* (-1)^s * m * 2^e for m of 53 bits, or m = 2^53 *)
Carried(s, m, e) ==
  IF m = TwoTo53 THEN [s |-> s, m |-> TwoTo52, e |-> e + 1] ELSE [s |-> s, m |-> m, e |-> e]

(* (2 * halves.q + 1) * 2^(e - 1) when halves.sticky and 2 * halves.q *
   2^(e - 1) otherwise, a number of 54 bits, or a value just above it when
   sticky: rounded to 53 bits, to nearest, ties to even *)
RoundHalves(s, halves, e, sticky) ==
  IF halves.sticky /\ (sticky \/ BigOdd(halves.q))
  THEN Carried(s, BigAdd(halves.q, <<1>>), e)
  ELSE [s |-> s, m |-> halves.q, e |-> e]

RoundLast(s, m, e, sticky) == RoundHalves(s, BigShr(m, 1), e + 1, sticky)

RoundCut(s, cut, e, sticky) == RoundLast(s, cut.q, e, sticky \/ cut.sticky)

RoundBits(s, m, e, sticky, bits) ==
  IF bits <= 53
  THEN [s |-> s, m |-> BigShl(m, 53 - bits), e |-> e - (53 - bits)]
  ELSE RoundCut(s, BigShr(m, bits - 54), e + (bits - 54), sticky)

(* the double nearest to (-1)^s * m * 2^e, or to a value just above it in
   absolute value when sticky *)
Round(s, m, e, sticky) ==
  IF m = <<>> THEN FZero ELSE RoundBits(s, m, e, sticky, BigBitLen(m))

(* the double is a normal number or zero *)
InRange(x) == IF IsZero(x) THEN TRUE ELSE x.e >= -1074 /\ x.e <= 971

FNeg(x) == IF IsZero(x) THEN x ELSE [x EXCEPT !.s = 1 - @]

FAbs(x) == [x EXCEPT !.s = 0]

(* (-1)^sx * mx * 2^e + (-1)^sy * my * 2^e, order being BigCmp(mx, my) *)
AddOrdered(sx, mx, sy, my, e, order) ==
  Round(IF sx = sy \/ order >= 0 THEN sx ELSE sy,
        IF sx = sy THEN BigAdd(mx, my)
        ELSE IF order >= 0 THEN BigSub(mx, my) ELSE BigSub(my, mx),
        e, FALSE)

AddAligned(sx, mx, sy, my, e) == AddOrdered(sx, mx, sy, my, e, BigCmp(mx, my))

AddAt(x, y, e) == AddAligned(x.s, BigShl(x.m, x.e - e), y.s, BigShl(y.m, y.e - e), e)

(* x + y *)
FAdd(x, y) ==
  IF IsZero(x) THEN y ELSE IF IsZero(y) THEN x ELSE AddAt(x, y, Min(x.e, y.e))

(* x - y *)
FSub(x, y) == FAdd(x, FNeg(y))

(* x * y *)
FMul(x, y) ==
  IF IsZero(x) \/ IsZero(y) THEN FZero
  ELSE Round((x.s + y.s) % 2, BigMul(x.m, y.m), x.e + y.e, FALSE)

(* x / 2 and x * 2 *)
FHalf(x) == IF IsZero(x) THEN x ELSE [x EXCEPT !.e = @ - 1]

FDouble(x) == IF IsZero(x) THEN x ELSE [x EXCEPT !.e = @ + 1]

(* |x| < |y| for x and y other than zero *)
Below(x, y) == IF x.e = y.e THEN BigCmp(x.m, y.m) < 0 ELSE x.e < y.e

(* x < y *)
FLess(x, y) ==
  IF IsZero(x) THEN ~IsZero(y) /\ y.s = 0
  ELSE IF IsZero(y) THEN x.s = 1
  ELSE IF x.s # y.s THEN x.s = 1
  ELSE IF x.s = 0 THEN Below(x, y) ELSE Below(y, x)

RatioOf(s, quotient) == Round(s, quotient.q, -75, quotient.r # 0)

(* the double a decimal literal or a quotient of two integers denotes:
   the one nearest to n / d, for 0 < d < 2^15 *)
FromRatio(n, d) ==
  IF n = 0 THEN FZero
  ELSE RatioOf(IF n < 0 THEN 1 ELSE 0,
               BigDivDigit(BigShl(<<Abs(n) % Base, Abs(n) \div Base>>, 75), d))

(* x <= y *)
FLessEq(x, y) == ~FLess(y, x)

(* the digit q with q * d <= r < (q + 1) * d, for r < d * Base and d with a
   highest digit of at least Base / 2: the quotient of the two highest
   digits of r by the highest of d is q, q + 1 or q + 2 *)
DigitEstimate(r, d) ==
  Min(Base - 1, (Digit(r, Len(d) + 1) * Base + Digit(r, Len(d))) \div d[Len(d)])

QuotientDigitFrom(r, d, estimate) ==
  IF BigCmp(BigMulDigit(d, estimate), r) <= 0 THEN estimate
  ELSE IF BigCmp(BigMulDigit(d, estimate - 1), r) <= 0 THEN estimate - 1
  ELSE estimate - 2

QuotientDigit(r, d) == QuotientDigitFrom(r, d, DigitEstimate(r, d))

(* long division of the digits a[1..i] by d, the higher digits of a having
   left the remainder r and the quotient digits q *)
RECURSIVE BigDivFrom(_, _, _, _, _)
BigDivPut(a, d, i, r, q, digit) ==
  IF digit = 0
  THEN BigDivFrom(a, d, i - 1, r, <<0>> \o q)
  ELSE BigDivFrom(a, d, i - 1, BigSub(r, BigMulDigit(d, digit)), <<digit>> \o q)

BigDivFrom(a, d, i, r, q) ==
  IF i = 0 THEN [q |-> BigTrim(q), sticky |-> r # <<>>]
  ELSE BigDivPut(a, d, i, BigTrim(<<a[i]>> \o r), q,
                 QuotientDigit(BigTrim(<<a[i]>> \o r), d))

(* the division of a by d, for d with a highest digit of at least
   Base / 2: the Len(d) - 1 highest digits of a are below d *)
BigDivNormal(a, d) ==
  BigDivFrom(a, d, Max(Len(a) - Len(d) + 1, 0),
             BigTrim(SubSeq(a, Max(Len(a) - Len(d) + 1, 0) + 1, Len(a))), <<>>)

(* q: a divided by b, rounded down; sticky: the division left a remainder.
   Both are shifted to give b a highest digit of at least Base / 2. *)
BigDiv(a, b) ==
  BigDivNormal(BigShl(a, 15 - BitLen(b[Len(b)])), BigShl(b, 15 - BitLen(b[Len(b)])))

(* what Infinity and NaN are kept as: a value out of range *)
NotFinite == [s |-> 0, m |-> <<1>>, e |-> 2048]

RoundQuotient(s, quotient, e) == Round(s, quotient.q, e, quotient.sticky)

(* x / y *)
FDiv(x, y) ==
  IF IsZero(y) THEN NotFinite
  ELSE IF IsZero(x) THEN FZero
  ELSE RoundQuotient((x.s + y.s) % 2, BigDiv(BigShl(x.m, 60), y.m), x.e - y.e - 60)

(* the square root of n < 2^30, rounded down, by Newton's iteration from a
   root r that is not below it *)
RECURSIVE IntSqrtFrom(_, _)
IntSqrtFrom(n, r) ==
  IF (r + n \div r) \div 2 >= r THEN r ELSE IntSqrtFrom(n, (r + n \div r) \div 2)

IntSqrt(n) == IF n = 0 THEN 0 ELSE IntSqrtFrom(n, Base)

(* the same for a natural number a of eight digits: the next root is
   (r + a \div r) \div 2, which is not below r when a \div r is not *)
RECURSIVE BigSqrtFrom(_, _)
BigSqrtNext(a, r, quotient) ==
  IF BigCmp(quotient, r) >= 0 THEN r ELSE BigSqrtFrom(a, BigShr(BigAdd(r, quotient), 1).q)

BigSqrtFrom(a, r) == BigSqrtNext(a, r, BigDiv(a, r).q)

BigSqrtStart(top) ==
  IF top + 1 = Base THEN <<Base - 1, Base - 1, Base - 1, Base - 1>> ELSE <<0, 0, 0, top + 1>>

BigSqrt(a) == BigSqrtFrom(a, BigSqrtStart(IntSqrt(a[8] * Base + a[7])))

RoundRoot(a, root, e) == Round(0, root, e, BigCmp(BigMul(root, root), a) # 0)

(* Math.sqrt(x) for x >= 0, from the square root of x.m * 2^66 or
   x.m * 2^67, whichever leaves an even exponent: a number of eight digits *)
SqrtShift(x) == IF x.e % 2 = 0 THEN 66 ELSE 67

FSqrtOf(a, e) == RoundRoot(a, BigSqrt(a), e)

FSqrt(x) ==
  IF IsZero(x) THEN FZero
  ELSE FSqrtOf(BigShl(x.m, SqrtShift(x)), (x.e - SqrtShift(x)) \div 2)


----------------------------------------------------------------------------
(* THREE.Vector3 on <<x, y, z>>, as the three.js library defines the
   methods the source calls *)

FOne == FromRatio(1, 1)

(* Math.min(x, y) *)
FMin(x, y) == IF FLess(y, x) THEN y ELSE x

(* new THREE.Vector3(x, y, z) for integers x, y, z *)
Vec(x, y, z) == <<FromRatio(x, 1), FromRatio(y, 1), FromRatio(z, 1)>>

(* new THREE.Vector3(x / 10, y / 10, z / 10), each written as a decimal literal *)
Vec10(x, y, z) == <<FromRatio(x, 10), FromRatio(y, 10), FromRatio(z, 10)>>

(* new THREE.Vector3() *)
Zero3 == <<FZero, FZero, FZero>>

InRange3(v) == InRange(v[1]) /\ InRange(v[2]) /\ InRange(v[3])

(* add(v) *)
Add3(u, v) == <<FAdd(u[1], v[1]), FAdd(u[2], v[2]), FAdd(u[3], v[3])>>

(* new THREE.Vector3(u.x - v.x, u.y - v.y, u.z - v.z) *)
Sub3(u, v) == <<FSub(u[1], v[1]), FSub(u[2], v[2]), FSub(u[3], v[3])>>

(* dot(v): this.x * v.x + this.y * v.y + this.z * v.z *)
Dot(u, v) == FAdd(FAdd(FMul(u[1], v[1]), FMul(u[2], v[2])), FMul(u[3], v[3]))

(* length(): Math.sqrt(this.x * this.x + this.y * this.y + this.z * this.z) *)
Length(v) == FSqrt(Dot(v, v))

(* multiplyScalar(scalar) *)
MultiplyScalar(v, scalar) == <<FMul(v[1], scalar), FMul(v[2], scalar), FMul(v[3], scalar)>>

(* divideScalar(scalar): multiplyScalar(1 / scalar) *)
DivideScalar(v, scalar) == MultiplyScalar(v, FDiv(FOne, scalar))

(* divideScalar(length || 1) *)
NormalizeBy(v, length) == DivideScalar(v, IF IsZero(length) THEN FOne ELSE length)

(* normalize(): divideScalar(length() || 1) *)
Normalize(v) == NormalizeBy(v, Length(v))

----------------------------------------------------------------------------
(* _checkCollision *)

(* Math.abs(a.position.k - b.position.k) * 2 <= (a.dimensions.k + b.dimensions.k) *)
TouchesOn(a, b, k) ==
  FLessEq(FDouble(FAbs(FSub(a.position[k], b.position[k]))),
          FAdd(a.dimensions[k], b.dimensions[k]))

(* _checkCollision with <= in place of <, so that touching faces collide *)
CheckCollisionTouching(a, b) ==
  IF a.shape # "box" \/ b.shape # "box"
  THEN FALSE
  ELSE TouchesOn(a, b, 1) /\ TouchesOn(a, b, 2) /\ TouchesOn(a, b, 3)

(* Math.abs(a.position.k - b.position.k) * 2 < (a.dimensions.k + b.dimensions.k) *)
OverlapsOn(a, b, k) ==
  FLess(FDouble(FAbs(FSub(a.position[k], b.position[k]))),
        FAdd(a.dimensions[k], b.dimensions[k]))

(* _checkCollision: strict AABB overlap on the three axes, boxes only *)
CheckCollision(a, b) ==
  IF a.shape # "box" \/ b.shape # "box"
  THEN FALSE
  ELSE OverlapsOn(a, b, 1) /\ OverlapsOn(a, b, 2) /\ OverlapsOn(a, b, 3)

----------------------------------------------------------------------------
(* _resolveCollision *)

(* overlap.k = (a.dimensions.k + b.dimensions.k) / 2
                 - Math.abs(a.position.k - b.position.k) *)
OverlapOn(a, b, k) ==
  FSub(FHalf(FAdd(a.dimensions[k], b.dimensions[k])),
       FAbs(FSub(a.position[k], b.position[k])))

(* const overlap = { x: ..., y: ..., z: ... } *)
Overlap(a, b) == <<OverlapOn(a, b, 1), OverlapOn(a, b, 2), OverlapOn(a, b, 3)>>

(* "Find the smallest overlap axis": the if / else if / else of both
   resolvers *)
SmallestAxis(overlap) ==
  IF FLess(overlap[1], overlap[2]) /\ FLess(overlap[1], overlap[3]) THEN 1
  ELSE IF FLess(overlap[2], overlap[3]) THEN 2
  ELSE 3

(* direction * amount, direction = a.position.k < b.position.k ? -1 : 1 *)
Directed(a, b, k, amount) ==
  IF FLess(a.position[k], b.position[k]) THEN FNeg(amount) ELSE amount

(* direction * overlap.k with direction = 1 where the body is below the
   static object's centre and -1 elsewhere: the push goes inward *)
PushInward(b, s, k, overlap) == Directed(s, b, k, overlap[k])

(* direction * overlap.k *)
Push(b, s, k, overlap) == Directed(b, s, k, overlap[k])

(* staticObj.friction > 0, false for an object without the field (undefined > 0) *)
FrictionPositive(o) == "friction" \in DOMAIN o /\ FLess(FZero, o.friction)

(* the branch of _resolveCollision reflecting the velocity in full, without
   the factor body.restitution *)
PushOutElastic(b, s, k, overlap) ==
  [b EXCEPT !.position[k] = FAdd(@, Push(b, s, k, overlap)),
            !.velocity[k] = FNeg(@)]

(* the branch of _resolveCollision for axis k: body.position.k += direction *
   overlap.k; body.velocity.k = -body.velocity.k * body.restitution *)
PushOut(b, s, k, overlap) ==
  [b EXCEPT !.position[k] = FAdd(@, Push(b, s, k, overlap)),
            !.velocity[k] = FMul(FNeg(@), b.restitution)]

(* 1 - combinedFriction, combinedFriction = body.friction * staticObj.friction *)
FrictionFactor(b, s) == FSub(FOne, FMul(b.friction, s.friction))

(* body.velocity.x, .y and .z *= factor *)
DampedOnAllAxes(b, factor) ==
  [b EXCEPT !.velocity = MultiplyScalar(@, factor)]

(* body.velocity.x *= factor; body.velocity.z *= factor *)
Damped(b, factor) ==
  [b EXCEPT !.velocity[1] = FMul(@, factor), !.velocity[3] = FMul(@, factor)]

(* "Apply friction" damping velocity.y along with velocity.x and velocity.z *)
ApplyFrictionOnAllAxes(b, s) ==
  IF FLess(FZero, b.friction) /\ FrictionPositive(s)
  THEN DampedOnAllAxes(b, FrictionFactor(b, s))
  ELSE b

(* "Apply friction", on the body b as the push left it *)
ApplyFriction(b, s) ==
  IF FLess(FZero, b.friction) /\ FrictionPositive(s)
  THEN Damped(b, FrictionFactor(b, s))
  ELSE b

(* _resolveCollision from "Find the smallest overlap axis" on *)
ResolveOverlap(b, s, overlap) ==
  ApplyFriction(PushOut(b, s, SmallestAxis(overlap), overlap), s)

(* _resolveCollision(body, staticObj): the body after the call; only the body
   changes *)
ResolveCollision(b, s) == ResolveOverlap(b, s, Overlap(b, s))

----------------------------------------------------------------------------
(* _resolveCollisionDynamic.  bodyA and bodyB are the objects a and x of
   the store S, a function from handles to objects: they are one object
   when a = x, and then what is written through bodyA is read through
   bodyB. *)

(* relativeVelocity *)
RelativeVelocity(A, B) == Sub3(A.velocity, B.velocity)

(* normal *)
Normal(A, B) == Normalize(Sub3(B.position, A.position))

(* velocityAlongNormal = relativeVelocity.dot(normal) *)
VelocityAlongNormal(A, B, normal) == Dot(RelativeVelocity(A, B), normal)

(* impulseStrength = -(1 + restitution) * velocityAlongNormal;
   impulseStrength /= (1 / bodyA.mass) + (1 / bodyB.mass) *)
ImpulseStrength(A, B, velocityAlongNormal) ==
  FDiv(FMul(FNeg(FAdd(FOne, FMin(A.restitution, B.restitution))), velocityAlongNormal),
       FAdd(FDiv(FOne, A.mass), FDiv(FOne, B.mass)))

(* <<impulse.x / mass, impulse.y / mass, impulse.z / mass>> *)
PerMass(impulse, mass) ==
  <<FDiv(impulse[1], mass), FDiv(impulse[2], mass), FDiv(impulse[3], mass)>>

(* "Apply impulse" with bodyB's velocity changed by impulse / bodyA.mass *)
ApplyImpulseBothByMassA(S, a, x, impulse) ==
  [[S EXCEPT ![a].velocity = Add3(@, PerMass(impulse, S[a].mass))]
     EXCEPT ![x].velocity = Sub3(@, PerMass(impulse, S[a].mass))]

(* "Apply impulse": bodyA.velocity.k += impulse.k / bodyA.mass, then
   bodyB.velocity.k -= impulse.k / bodyB.mass *)
ApplyImpulseBoth(S, a, x, impulse) ==
  [[S EXCEPT ![a].velocity = Add3(@, PerMass(impulse, S[a].mass))]
     EXCEPT ![x].velocity = Sub3(@, PerMass(impulse, S[x].mass))]

(* bodyA.position.k += move, then bodyB.position.k -= move *)
Moved(S, a, x, k, move) ==
  [[S EXCEPT ![a].position[k] = FAdd(@, move)]
     EXCEPT ![x].position[k] = FSub(@, move)]

(* the axis k being the smallest overlap axis: direction * moveAmount,
   moveAmount = overlap.k / 2 *)
SeparateOn(S, A, B, a, x, k, overlap) ==
  Moved(S, a, x, k, Directed(A, B, k, FHalf(overlap[k])))

(* "Separate the bodies to prevent sticking", S being the store as the
   impulse left it, A and B the two bodies on entry, whose positions the
   impulse has not changed *)
Separate(S, A, B, a, x, overlap) == SeparateOn(S, A, B, a, x, SmallestAxis(overlap), overlap)

(* the call from "Apply impulse" on *)
ResolveAlong(S, a, x, impulse) ==
  [objects |-> Separate(ApplyImpulseBoth(S, a, x, impulse), S[a], S[x], a, x,
                        Overlap(S[a], S[x])),
   threw |-> FALSE,
   finite |-> TRUE]

(* the call from impulse = normal.multiplyScalar(impulseStrength) on.
   finite: impulseStrength is a number in range, its divisor
   (1 / bodyA.mass) + (1 / bodyB.mass) being the one that can be zero *)
ResolveBy(S, a, x, normal, impulseStrength) ==
  IF ~InRange(impulseStrength)
  THEN [objects |-> S, threw |-> FALSE, finite |-> FALSE]
  ELSE ResolveAlong(S, a, x, MultiplyScalar(normal, impulseStrength))

(* the call from "Do not resolve if objects are moving away from each
   other" on *)
ResolveApproaching(S, a, x, normal, velocityAlongNormal) ==
  IF FLess(FZero, velocityAlongNormal)
  THEN [objects |-> S, threw |-> FALSE, finite |-> TRUE]
  ELSE ResolveBy(S, a, x, normal, ImpulseStrength(S[a], S[x], velocityAlongNormal))

(* the call from velocityAlongNormal on *)
ResolveToward(S, a, x, normal) ==
  IF ~InRange3(normal)
  THEN [objects |-> S, threw |-> FALSE, finite |-> FALSE]
  ELSE ResolveApproaching(S, a, x, normal, VelocityAlongNormal(S[a], S[x], normal))

(* _resolveCollisionDynamic(bodyA, bodyB) for bodyA = S[a] and bodyB = S[x]:
   the objects after the call.  threw: bodyB has no velocity field, so
   bodyB.velocity.x raises a TypeError before anything is assigned. *)
ResolveCollisionDynamic(S, a, x) ==
  IF "velocity" \notin DOMAIN S[x]
  THEN [objects |-> S, threw |-> TRUE, finite |-> TRUE]
  ELSE ResolveToward(S, a, x, Normal(S[a], S[x]))
----------------
(* The collision matrix: a JavaScript object of objects *)

EmptyRow == [c \in {} |-> FALSE]

(* this.collisionMatrix[r][c]: "undefined" when the row has no such column *)
MatrixGet(M, r, c) ==
  IF c \notin DOMAIN M[r] THEN "undefined" ELSE IF M[r][c] THEN "true" ELSE "false"

(* if (!this.collisionMatrix[r]) this.collisionMatrix[r] = {} *)
MatrixEnsureRow(M, r) == IF r \in DOMAIN M THEN M ELSE (r :> EmptyRow) @@ M

(* this.collisionMatrix[r][c] = v *)
MatrixSet(M, r, c, v) == [M EXCEPT ![r] = (c :> v) @@ @]

(* delete this.collisionMatrix[id]; then delete row[id] in every row left *)
MatrixPurge(M, id) ==
  [r \in DOMAIN M \ {id} |-> [c \in DOMAIN M[r] \ {id} |-> M[r][c]]]

(* every id the matrix mentions, as a row key or as a column key *)
MatrixIds(M) == DOMAIN M \cup UNION {DOMAIN M[r] : r \in DOMAIN M}

----------------------------------------------------------------------------
(* Array helpers *)

(* indexOf(x): the first index holding x, 0 for JavaScript's -1 *)
IndexOf(s, x) ==
  IF \E i \in 1..Len(s) : s[i] = x
  THEN CHOOSE i \in 1..Len(s) : s[i] = x /\ \A j \in 1..(i - 1) : s[j] # x
  ELSE 0

(* splice(index, 1) *)
Splice(s, i) == [j \in 1..(Len(s) - 1) |-> IF j < i THEN s[j] ELSE s[j + 1]]

Range(s) == {s[i] : i \in 1..Len(s)}

----------------------------------------------------------------------------
(* The state an update call works on.  bodies, colliders, body and matrix
   are the system's; events lists the callbacks invoked, pairs the (body,
   other) evaluations made, in order; threw: an exception left the call;
   finite: no division so far gave Infinity or NaN. *)

(* removeBody(body) deleting the matrix entries of body.id whether or not
   the body was found *)
RemoveBodyInPurgingAbsent(W, h) ==
  [W EXCEPT !.bodies = IF IndexOf(W.bodies, h) # 0
                       THEN Splice(W.bodies, IndexOf(W.bodies, h))
                       ELSE W.bodies,
            !.matrix = MatrixPurge(W.matrix, W.body[h].id)]

(* removeBody(body) on the working state *)
RemoveBodyIn(W, h) ==
  IF IndexOf(W.bodies, h) # 0
  THEN [W EXCEPT !.bodies = Splice(W.bodies, IndexOf(W.bodies, h)),
                 !.matrix = MatrixPurge(W.matrix, W.body[h].id)]
  ELSE W

(* if (collider.onX) collider.onX(bodyA): a handler that is "null" is not
   called; "log" does nothing to the system; "remove" calls
   removeBody(bodyA) on the system. *)
Invoke(W, c, cb, a) ==
  IF coll[c][cb] = "null"
  THEN W
  ELSE IF coll[c][cb] = "remove"
  THEN RemoveBodyIn([W EXCEPT !.events = Append(@, [cb |-> cb, collider |-> c, body |-> a])], a)
  ELSE [W EXCEPT !.events = Append(@, [cb |-> cb, collider |-> c, body |-> a])]

Truthy(o, f) == f \in DOMAIN o /\ o[f]

(* the working state after _resolveCollision left r in place of body a *)
PutStatic(W, a, r) == [W EXCEPT !.body[a] = r]

(* the working state after a call r of _resolveCollisionDynamic on the
   bodies of W when isBody, and on the pair <<body a, collider>> otherwise *)
PutResolved(W, a, isBody, r) ==
  IF isBody
  THEN [W EXCEPT !.body = r.objects, !.threw = r.threw, !.finite = @ /\ r.finite]
  ELSE [W EXCEPT !.body[a] = r.objects[1], !.threw = r.threw, !.finite = @ /\ r.finite]

(* this._resolveCollisionDynamic(a, b) where b is the body with handle x
   when isBody and the collider with handle x otherwise *)
PutDynamic(W, a, isBody, x) ==
  PutResolved(W, a, isBody,
              ResolveCollisionDynamic(IF isBody THEN W.body ELSE <<W.body[a], coll[x]>>,
                                      IF isBody THEN a ELSE 1,
                                      IF isBody THEN x ELSE 2))

(* _handleCollisionEnter(a, b): a is the body with handle a, b the object o
   (the body with handle x when isBody, else the collider with handle x) *)
HandleCollisionEnter(W, a, o, isBody, x) ==
  IF Truthy(o, "isStatic") \/ Truthy(o, "isTrigger")
  THEN PutStatic(W, a, ResolveCollision(W.body[a], o))
  ELSE PutDynamic(W, a, isBody, x)

(* _handleCollisionStay(a, b): the same code as _handleCollisionEnter *)
HandleCollisionStay(W, a, o, isBody, x) ==
  IF Truthy(o, "isStatic") \/ Truthy(o, "isTrigger")
  THEN PutStatic(W, a, ResolveCollision(W.body[a], o))
  ELSE PutDynamic(W, a, isBody, x)

(* _handleCollisionExit(a, b): "Nothing to do for now" *)
HandleCollisionExit(W, a, o, isBody, x) == W


----------------------------------------------------------------------------
(* _checkCollisions *)

(* how the source's if / else if / else if classifies a pair *)
Transition(isColliding, wasColliding) ==
  IF isColliding /\ wasColliding # "true" THEN "enter"
  ELSE IF isColliding /\ wasColliding = "true" THEN "stay"
  ELSE IF ~isColliding /\ wasColliding = "true" THEN "exit"
  ELSE "none"

(* The pair's step up to "Update collision matrix": M is the matrix with
   the row of idA ensured.  The evaluation is appended to pairs. *)
RecordPair(W, M, a, isBody, x, idA, idX, isColliding) ==
  [W EXCEPT !.matrix = MatrixSet(M, idA, idX, isColliding),
            !.pairs = Append(@, [a |-> a, isBody |-> isBody, x |-> x,
                                 isColliding |-> isColliding,
                                 wasColliding |-> MatrixGet(M, idA, idX),
                                 live |-> a \in Range(W.bodies)])]

(* the transition of the pair evaluated last *)
LastTransition(W) ==
  Transition(W.pairs[Len(W.pairs)].isColliding, W.pairs[Len(W.pairs)].wasColliding)

(* "Handle collision events" of the body loop, W1 being the state after
   the matrix update *)
BodyEvents(W1, a, b) ==
  IF LastTransition(W1) = "enter" THEN HandleCollisionEnter(W1, a, W1.body[b], TRUE, b)
  ELSE IF LastTransition(W1) = "stay" THEN HandleCollisionStay(W1, a, W1.body[b], TRUE, b)
  ELSE IF LastTransition(W1) = "exit" THEN HandleCollisionExit(W1, a, W1.body[b], TRUE, b)
  ELSE W1

(* one iteration of the body loop, for bodyB = the body with handle b *)
BodyPair(W, a, b) ==
  BodyEvents(RecordPair(W, MatrixEnsureRow(W.matrix, W.body[a].id), a, TRUE, b,
                        W.body[a].id, W.body[b].id,
                        CheckCollision(W.body[a], W.body[b])),
             a, b)

(* "Check against other bodies": for (j = 0; j < this.bodies.length; j++) *)
RECURSIVE BodyLoop(_, _, _, _)
BodyLoop(W, i, a, j) ==
  IF W.threw \/ j > Len(W.bodies)
  THEN W
  ELSE IF i = j
  THEN BodyLoop(W, i, a, j + 1)
  ELSE BodyLoop(BodyPair(W, a, W.bodies[j]), i, a, j + 1)

(* a callback after a resolution: not reached when the resolution threw *)
ThenInvoke(W1, c, cb, a) == IF W1.threw THEN W1 ELSE Invoke(W1, c, cb, a)

(* the collider loop's events with a trigger resolved like a solid collider
   before its callback *)
ColliderEventsResolvingTriggers(W1, a, c) ==
  IF LastTransition(W1) = "enter"
  THEN IF coll[c].isTrigger
       THEN ThenInvoke(HandleCollisionEnter(W1, a, coll[c], FALSE, c), c, "onTriggerEnter", a)
       ELSE ThenInvoke(HandleCollisionEnter(W1, a, coll[c], FALSE, c), c, "onCollisionEnter", a)
  ELSE IF LastTransition(W1) = "stay"
  THEN IF coll[c].isTrigger
       THEN ThenInvoke(HandleCollisionStay(W1, a, coll[c], FALSE, c), c, "onTriggerStay", a)
       ELSE ThenInvoke(HandleCollisionStay(W1, a, coll[c], FALSE, c), c, "onCollisionStay", a)
  ELSE IF LastTransition(W1) = "exit"
  THEN IF coll[c].isTrigger
       THEN Invoke(W1, c, "onTriggerExit", a)
       ELSE Invoke(W1, c, "onCollisionExit", a)
  ELSE W1

(* "Handle collision events" of the collider loop, W1 being the state
   after the matrix update *)
ColliderEvents(W1, a, c) ==
  IF LastTransition(W1) = "enter"
  THEN IF coll[c].isTrigger
       THEN Invoke(W1, c, "onTriggerEnter", a)
       ELSE ThenInvoke(HandleCollisionEnter(W1, a, coll[c], FALSE, c), c, "onCollisionEnter", a)
  ELSE IF LastTransition(W1) = "stay"
  THEN IF coll[c].isTrigger
       THEN Invoke(W1, c, "onTriggerStay", a)
       ELSE ThenInvoke(HandleCollisionStay(W1, a, coll[c], FALSE, c), c, "onCollisionStay", a)
  ELSE IF LastTransition(W1) = "exit"
  THEN IF coll[c].isTrigger
       THEN Invoke(W1, c, "onTriggerExit", a)
       ELSE Invoke(W1, c, "onCollisionExit", a)
  ELSE W1

(* one iteration of the collider loop, for the collider with handle c *)
ColliderPair(W, a, c) ==
  ColliderEvents(RecordPair(W, MatrixEnsureRow(W.matrix, W.body[a].id), a, FALSE, c,
                            W.body[a].id, coll[c].id,
                            CheckCollision(W.body[a], coll[c])),
                 a, c)

(* "Check against colliders": for (j = 0; j < this.colliders.length; j++) *)
RECURSIVE ColliderLoop(_, _, _)
ColliderLoop(W, a, j) ==
  IF W.threw \/ j > Len(W.colliders)
  THEN W
  ELSE ColliderLoop(ColliderPair(W, a, W.colliders[j]), a, j + 1)

(* for (i = 0; i < this.bodies.length; i++): bodyA is read once, the length
   and the inner arrays are read live *)
RECURSIVE CheckCollisionsFrom(_, _)
CheckCollisionsFrom(W, i) ==
  IF W.threw \/ i > Len(W.bodies)
  THEN W
  ELSE IF W.body[W.bodies[i]].isStatic
  THEN CheckCollisionsFrom(W, i + 1)
  ELSE CheckCollisionsFrom(ColliderLoop(BodyLoop(W, i, W.bodies[i], 1), W.bodies[i], 1),
                           i + 1)

CheckCollisions(W) == CheckCollisionsFrom(W, 1)


----------------------------------------------------------------------------
(* update *)

(* one component of velocity += acceleration * scaledDelta, or of
   position += velocity * scaledDelta *)
Advance(x, rate, scaledDelta) == FAdd(x, FMul(rate, scaledDelta))

(* "Apply gravity" *)
WithGravity(b, g) == [b EXCEPT !.acceleration = Add3(@, g)]

(* "Update velocity", on the body with gravity applied *)
WithVelocity(b, scaledDelta) ==
  [b EXCEPT !.velocity = <<Advance(@[1], b.acceleration[1], scaledDelta),
                           Advance(@[2], b.acceleration[2], scaledDelta),
                           Advance(@[3], b.acceleration[3], scaledDelta)>>]

(* "Update position" without "Reset acceleration for next frame" *)
WithPositionKeepingForces(b, scaledDelta) ==
  [b EXCEPT !.position = <<Advance(@[1], b.velocity[1], scaledDelta),
                           Advance(@[2], b.velocity[2], scaledDelta),
                           Advance(@[3], b.velocity[3], scaledDelta)>>]

(* "Update position", with the velocity just updated, and "Reset
   acceleration for next frame" *)
WithPosition(b, scaledDelta) ==
  [b EXCEPT !.position = <<Advance(@[1], b.velocity[1], scaledDelta),
                           Advance(@[2], b.velocity[2], scaledDelta),
                           Advance(@[3], b.velocity[3], scaledDelta)>>,
            !.acceleration = Zero3]

(* the forEach callback moving the position with the velocity the body had
   before the step (explicit Euler) *)
IntegrateExplicit(b, g, scaledDelta) ==
  [WithVelocity(WithGravity(b, g), scaledDelta)
     EXCEPT !.position = <<Advance(@[1], b.velocity[1], scaledDelta),
                           Advance(@[2], b.velocity[2], scaledDelta),
                           Advance(@[3], b.velocity[3], scaledDelta)>>,
            !.acceleration = Zero3]

(* the forEach callback of update, for one non-static body *)
Integrate(b, g, scaledDelta) ==
  WithPosition(WithVelocity(WithGravity(b, g), scaledDelta), scaledDelta)

(* the forEach without its early return for static bodies, from the i-th
   element of this.bodies on *)
RECURSIVE IntegrateStaticsTooFrom(_, _, _, _)
IntegrateStaticsTooFrom(W, g, scaledDelta, i) ==
  IF i > Len(W.bodies)
  THEN W
  ELSE IntegrateStaticsTooFrom(
         [W EXCEPT !.body[W.bodies[i]] = Integrate(@, g, scaledDelta)], g, scaledDelta, i + 1)

IntegrateAllStaticsToo(W, g, scaledDelta) == IntegrateStaticsTooFrom(W, g, scaledDelta, 1)

(* the forEach from the i-th element of this.bodies on: an object that is
   in the array twice is integrated twice *)
RECURSIVE IntegrateFrom(_, _, _, _)
IntegrateFrom(W, g, scaledDelta, i) ==
  IF i > Len(W.bodies)
  THEN W
  ELSE IF W.body[W.bodies[i]].isStatic
  THEN IntegrateFrom(W, g, scaledDelta, i + 1)
  ELSE IntegrateFrom(
         [W EXCEPT !.body[W.bodies[i]] = Integrate(@, g, scaledDelta)], g, scaledDelta, i + 1)

(* this.bodies.forEach(body => { if (body.isStatic) return; ... }) *)
IntegrateAll(W, g, scaledDelta) == IntegrateFrom(W, g, scaledDelta, 1)

(* scaledDelta < 0.0001 *)
SkipStep(deltaTime, ts) == FLess(FMul(deltaTime, ts), FromRatio(1, 10000))

(* update(deltaTime) without its guard on scaledDelta *)
UpdateInUnguarded(W, g, ts, deltaTime) ==
  [w |-> CheckCollisions(IntegrateAll(W, g, FMul(deltaTime, ts))), skipped |-> FALSE]

(* update(deltaTime) on the working state; skipped: the early return *)
UpdateIn(W, g, ts, deltaTime) ==
  IF SkipStep(deltaTime, ts)
  THEN [w |-> W, skipped |-> TRUE]
  ELSE [w |-> CheckCollisions(IntegrateAll(W, g, FMul(deltaTime, ts))), skipped |-> FALSE]

----------------------------------------------------------------------------
(* Construction of the system and of its objects.  An options object is a
   record holding only the fields the caller supplied; a || b takes b when
   a is missing, 0, false or "". *)

(* !x for an id x, which is a string or a number *)
Falsy(x) == ToString(x) \in {ToString(0), ToString("")}

OrNumber(o, f, def) == IF f \in DOMAIN o /\ ~IsZero(o[f]) THEN o[f] ELSE def

OrObject(o, f, def) == IF f \in DOMAIN o THEN o[f] ELSE def

OrBoolean(o, f) == f \in DOMAIN o /\ o[f]

OrString(o, f, def) == IF f \in DOMAIN o /\ o[f] # "" THEN o[f] ELSE def

(* options.id || def *)
OrId(o, def) == IF "id" \in DOMAIN o /\ ~Falsy(o.id) THEN o.id ELSE def

(* { x: 0, y: -9.8, z: 0 } *)
DefaultGravity == <<FZero, FNeg(FromRatio(98, 10)), FZero>>

(* constructor(options): this.gravity and this.timeScale *)
Constructor(options) ==
  [gravity |-> OrObject(options, "gravity", DefaultGravity),
   timeScale |-> OrNumber(options, "timeScale", FOne)]

(* `body_${n}` *)
BodyId(n) == "body_" \o ToString(n)

(* `collider_${n}` *)
ColliderId(n) == "collider_" \o ToString(n)

(* the object literal of createBody; n is this.bodies.length *)
NewBody(options, n) ==
  [id |-> OrId(options, BodyId(n)),
   position |-> OrObject(options, "position", Zero3),
   velocity |-> OrObject(options, "velocity", Zero3),
   acceleration |-> OrObject(options, "acceleration", Zero3),
   mass |-> OrNumber(options, "mass", FOne),
   restitution |-> OrNumber(options, "restitution", FromRatio(3, 10)),
   friction |-> OrNumber(options, "friction", FromRatio(5, 10)),
   isStatic |-> OrBoolean(options, "isStatic"),
   shape |-> OrString(options, "shape", "box"),
   dimensions |-> OrObject(options, "dimensions", Vec(1, 1, 1))]

(* the object literal of createCollider; n is this.colliders.length *)
NewCollider(options, n) ==
  [id |-> OrId(options, ColliderId(n)),
   position |-> OrObject(options, "position", Zero3),
   shape |-> OrString(options, "shape", "box"),
   dimensions |-> OrObject(options, "dimensions", Vec(1, 1, 1)),
   isTrigger |-> OrBoolean(options, "isTrigger"),
   onCollisionEnter |-> OrObject(options, "onCollisionEnter", "null"),
   onCollisionStay |-> OrObject(options, "onCollisionStay", "null"),
   onCollisionExit |-> OrObject(options, "onCollisionExit", "null"),
   onTriggerEnter |-> OrObject(options, "onTriggerEnter", "null"),
   onTriggerStay |-> OrObject(options, "onTriggerStay", "null"),
   onTriggerExit |-> OrObject(options, "onTriggerExit", "null")]

(* the object o with o.id = id *)
WithId(o, id) == [f \in DOMAIN o \cup {"id"} |-> IF f = "id" THEN id ELSE o[f]]

(* addBody's if (!body.id) body.id = `body_${this.bodies.length}` *)
AddBodyId(b, n) == IF "id" \in DOMAIN b /\ ~Falsy(b.id) THEN b ELSE WithId(b, BodyId(n))

(* addCollider's if (!collider.id) collider.id = `collider_${this.colliders.length}` *)
AddColliderId(c, n) ==
  IF "id" \in DOMAIN c /\ ~Falsy(c.id) THEN c ELSE WithId(c, ColliderId(n))

----------------------------------------------------------------------------
(* The inputs the model draws from *)

ConstructorOptionSet ==
  { [gravity |-> Vec(0, -1, 0)],
    [gravity |-> Vec(0, -1, 0), timeScale |-> FZero] }

BodyOptionSet ==
  { [position |-> Vec(0, 4, 0), restitution |-> FOne],
    [position |-> Vec(0, 0, 0), isStatic |-> TRUE, dimensions |-> Vec(10, 2, 10)] }

ColliderOptionSet ==
  { [position |-> Vec(0, 0, 0), dimensions |-> Vec(1, 4, 1), isTrigger |-> TRUE,
     onTriggerEnter |-> "log", onTriggerStay |-> "log", onTriggerExit |-> "log",
     onCollisionEnter |-> "log", onCollisionStay |-> "log", onCollisionExit |-> "log"],
    [position |-> Vec(0, 0, 0), dimensions |-> Vec(1, 4, 1), isTrigger |-> TRUE,
     onTriggerEnter |-> "remove"],
    [position |-> Vec(0, 0, 0), dimensions |-> Vec(1, 4, 1),
     onTriggerEnter |-> "log", onTriggerStay |-> "log", onTriggerExit |-> "log",
     onCollisionEnter |-> "log", onCollisionStay |-> "log", onCollisionExit |-> "log"] }

(* The runs the model follows: a run of body registry calls, a run of
   collider registry calls around one body, a run with colliders and their
   callbacks, a run of bodies pushed around, and two runs in which the
   caller hands objects it holds to addBody and addCollider; adds is the
   length of the array up to which it does. *)
BudgetSet ==
  { [bodies |-> MaxBodies, colliders |-> 0, objects |-> MaxBodies,
     steps |-> MaxSteps - 2, pushes |-> 0, removals |-> MaxRemovals + 1, adds |-> 0],
    [bodies |-> MaxBodies - 2, colliders |-> MaxColliders, objects |-> MaxObjects,
     steps |-> MaxSteps - 2, pushes |-> 0, removals |-> MaxRemovals, adds |-> 0],
    [bodies |-> MaxBodies - 1, colliders |-> MaxColliders - 1, objects |-> MaxObjects,
     steps |-> MaxSteps, pushes |-> 0, removals |-> 0, adds |-> 0],
    [bodies |-> MaxBodies - 1, colliders |-> 0, objects |-> MaxBodies - 1,
     steps |-> MaxSteps, pushes |-> MaxPushes, removals |-> 0, adds |-> 0],
    [bodies |-> MaxBodies - 1, colliders |-> 0, objects |-> MaxBodies - 1,
     steps |-> MaxSteps - 2, pushes |-> 0, removals |-> MaxRemovals, adds |-> MaxAdds],
    [bodies |-> MaxBodies - 2, colliders |-> MaxColliders - 2, objects |-> MaxBodies - 1,
     steps |-> MaxSteps - 2, pushes |-> 0, removals |-> MaxRemovals, adds |-> MaxAdds - 1] }

DeltaTimeSet == { FNeg(FOne), FZero, FOne }

ImpulseSet == { Vec(0, 2, 0) }

ForceSet == { Vec(0, 1, 0) }

----------------------------------------------------------------------------
(* body.applyForce / body.applyImpulse.  divideScalar changes the vector it
   is called on, which is the caller's own vector when that is a Vector3 and
   a fresh copy otherwise. *)

(* applyForce(force): the body after the call and the caller's vector after it *)
ApplyForceTo(b, force, isVector3) ==
  IF b.isStatic
  THEN [body |-> b, arg |-> force]
  ELSE [body |-> [b EXCEPT !.acceleration = Add3(@, DivideScalar(force, b.mass))],
        arg |-> IF isVector3 THEN DivideScalar(force, b.mass) ELSE force]

(* applyImpulse(impulse) *)
ApplyImpulseTo(b, impulse, isVector3) ==
  IF b.isStatic
  THEN [body |-> b, arg |-> impulse]
  ELSE [body |-> [b EXCEPT !.velocity = Add3(@, DivideScalar(impulse, b.mass))],
        arg |-> IF isVector3 THEN DivideScalar(impulse, b.mass) ELSE impulse]

----------------------------------------------------------------------------
(* The state machine *)

(* The Engine after its constructor: isRunning is this.isRunning; requests
   counts the animate callbacks handed to requestAnimationFrame for the next
   animation frame, queue those of the current frame still to run, frames
   the animation frames begun, calls the update calls made by the callbacks
   of the current frame, starts the start() calls made. *)
(* new InputManager(): keys and previousKeys, each as the set of the key
   codes whose entry is truthy *)
NewInputManager == [keys |-> {}, previousKeys |-> {}]

(* new Engine(options).  activeScene: a scene is set; inputManager: the
   engine's InputManager; elapsedTime: this.elapsedTime; log: the calls the
   last operation on the engine made on the physics system and on the
   scene, in order; inits: the calls of activeScene.init() so far; held: the
   frames that have found Space down since it went down *)
NewEngine ==
  [isRunning |-> FALSE, requests |-> 0, queue |-> 0, frames |-> 0, calls |-> 0, starts |-> 0,
   activeScene |-> FALSE, inputManager |-> NewInputManager, elapsedTime |-> FZero,
   log |-> <<>>, inits |-> 0, held |-> 0]

NoCall == [op |-> "new", h |-> 0, arg |-> Zero3, found |-> FALSE,
           skipped |-> FALSE, threw |-> FALSE, events |-> <<>>, pairs |-> <<>>]

(* |x| <= bound for a number x in range and an integer bound *)
Within(x, bound) == InRange(x) /\ FLessEq(FAbs(x), FromRatio(bound, 1))

(* the registered bodies stay inside the modelled box *)
InBounds(bs, B) ==
  \A h \in Range(bs) : \A k \in 1..3 :
     /\ Within(B[h].position[k], MaxPos)
     /\ Within(B[h].velocity[k], MaxVel)
     /\ Within(B[h].acceleration[k], MaxVel)

(* hist after a pass: each evaluation of a registered body overwrites the
   pair's entry; pairs of objects no longer registered are dropped *)
HistPut(H, p) == IF p.live THEN (<<p.a, p.isBody, p.x>> :> p.isColliding) @@ H ELSE H

RECURSIVE HistAfter(_, _)
HistAfter(H, pairs) ==
  IF pairs = <<>> THEN H ELSE HistAfter(HistPut(H, Head(pairs)), Tail(pairs))

HistKeyLive(key, bs, cs) ==
  /\ key[1] \in Range(bs)
  /\ IF key[2] THEN key[3] \in Range(bs) ELSE key[3] \in Range(cs)

HistLive(H, bs, cs) == [key \in {k \in DOMAIN H : HistKeyLive(k, bs, cs)} |-> H[key]]

(* heard: for the claims about callbacks.  entered holds the pairs <<a, c>>
   of a body and a collider such that c was given an Enter callback with a
   and no Exit callback with a since; held holds those for which, besides,
   every pass since that Enter that evaluated the pair found them
   overlapping. *)
NoEvents == [entered |-> {}, held |-> {}]

EnterCallbacks == {"onTriggerEnter", "onCollisionEnter"}

StayCallbacks == {"onTriggerStay", "onCollisionStay"}

ExitCallbacks == {"onTriggerExit", "onCollisionExit"}

(* the pairs <<body, collider>> of the callbacks in cbs among events *)
Delivered(events, cbs) ==
  {<<events[n].body, events[n].collider>> : n \in {m \in 1..Len(events) : events[m].cb \in cbs}}

(* the transition a callback stands for *)
CallbackKind(cb) ==
  IF cb \in EnterCallbacks THEN "enter" ELSE IF cb \in StayCallbacks THEN "stay" ELSE "exit"

(* heard after the evaluation p found its pair apart or not *)
HeardApart(H, p) ==
  IF p.isColliding THEN H ELSE [H EXCEPT !.held = @ \ {<<p.a, p.x>>}]

(* heard after the callback e was delivered *)
HeardPut(H, e) ==
  IF e.cb \in EnterCallbacks
  THEN [entered |-> H.entered \cup {<<e.body, e.collider>>},
        held |-> H.held \cup {<<e.body, e.collider>>}]
  ELSE IF e.cb \in ExitCallbacks
  THEN [H EXCEPT !.entered = @ \ {<<e.body, e.collider>>}]
  ELSE H

(* the callback events[k] is the one the evaluation p delivered: an
   evaluation delivers at most one callback, that of its transition, and
   the callbacks are listed in the order of the evaluations *)
DeliveredBy(p, events, k) ==
  IF k > Len(events) THEN FALSE
  ELSE /\ events[k].body = p.a
       /\ events[k].collider = p.x
       /\ CallbackKind(events[k].cb) = Transition(p.isColliding, p.wasColliding)

(* heard after the evaluations pairs[n..] and the callbacks events[k..] of
   a pass, taken in the order the pass made them *)
RECURSIVE HeardFrom(_, _, _, _, _)
HeardFrom(H, pairs, events, n, k) ==
  IF n > Len(pairs) THEN H
  ELSE IF pairs[n].isBody THEN HeardFrom(H, pairs, events, n + 1, k)
  ELSE IF DeliveredBy(pairs[n], events, k)
  THEN HeardFrom(HeardPut(HeardApart(H, pairs[n]), events[k]), pairs, events, n + 1, k + 1)
  ELSE HeardFrom(HeardApart(H, pairs[n]), pairs, events, n + 1, k)

HeardAfter(H, pairs, events) == HeardFrom(H, pairs, events, 1, 1)

Init ==
  /\ \E options \in ConstructorOptionSet :
        /\ gravity = Constructor(options).gravity
        /\ timeScale = Constructor(options).timeScale
  /\ bodies = <<>>
  /\ colliders = <<>>
  /\ collisionMatrix = [r \in {} |-> EmptyRow]
  /\ body = <<>>
  /\ coll = <<>>
  /\ last = NoCall
  /\ hist = [key \in {} |-> FALSE]
  /\ heard = NoEvents
  /\ born = <<>>
  /\ reused = {}
  /\ purged = {}
  /\ steps = 0
  /\ pushes = 0
  /\ removals = 0
  /\ engine = NewEngine
  /\ budget \in BudgetSet

(* createBody(options) returning the object b, which gets the next handle *)
CreateBodyAs(b) ==
  /\ body' = Append(body, b)
  /\ born' = Append(born, b)
  /\ bodies' = Append(bodies, Len(body) + 1)
  /\ reused' = IF b.id \in purged THEN reused \cup {Len(body) + 1} ELSE reused
  /\ last' = [NoCall EXCEPT !.op = "createBody"]

(* createBody(options): return this.addBody(body) *)
CreateBody(options) ==
  /\ Len(body) < budget.bodies
  /\ Len(body) + Len(coll) < budget.objects
  /\ CreateBodyAs(AddBodyId(NewBody(options, Len(bodies)), Len(bodies)))
  /\ UNCHANGED <<engine, budget, gravity, timeScale, colliders, collisionMatrix, coll, hist, heard, purged,
                 steps, pushes, removals>>

(* addBody(body) for a body object the caller holds: the object keeps the
   id it has, and is in this.bodies once more *)
AddBody(h) ==
  /\ h \in 1..Len(body)
  /\ Len(bodies) < budget.adds
  /\ body' = [body EXCEPT ![h] = AddBodyId(@, Len(bodies))]
  /\ bodies' = Append(bodies, h)
  /\ reused' = IF body[h].id \in purged THEN reused \cup {h} ELSE reused
  /\ last' = [NoCall EXCEPT !.op = "addBody", !.h = h]
  /\ UNCHANGED <<engine, budget, gravity, timeScale, colliders, collisionMatrix, coll, hist, heard,
                 born, purged, steps, pushes, removals>>

(* removeBody(body) having led to W; found: the body was registered *)
RemoveBodyAs(h, W, found) ==
  /\ found => removals < budget.removals
  /\ bodies' = W.bodies
  /\ collisionMatrix' = W.matrix
  /\ purged' = IF found THEN purged \cup {body[h].id} ELSE purged
  /\ hist' = HistLive(hist, W.bodies, colliders)
  /\ heard' = heard
  /\ removals' = IF found THEN removals + 1 ELSE removals
  /\ last' = [NoCall EXCEPT !.op = "removeBody", !.found = found]

(* removeBody(body) for any body object the caller holds *)
RemoveBody(h) ==
  /\ h \in 1..Len(body)
  /\ RemoveBodyAs(h, RemoveBodyIn([bodies |-> bodies, body |-> body,
                                   matrix |-> collisionMatrix], h),
                  IndexOf(bodies, h) # 0)
  /\ UNCHANGED <<engine, budget, gravity, timeScale, colliders, body, coll, born, reused, steps,
                 pushes>>

(* createCollider(options) returning the object c *)
CreateColliderAs(c) ==
  /\ coll' = Append(coll, c)
  /\ colliders' = Append(colliders, Len(coll) + 1)
  /\ last' = [NoCall EXCEPT !.op = "createCollider"]

(* createCollider(options): return this.addCollider(collider) *)
CreateCollider(options) ==
  /\ Len(coll) < budget.colliders
  /\ Len(body) + Len(coll) < budget.objects
  /\ CreateColliderAs(AddColliderId(NewCollider(options, Len(colliders)), Len(colliders)))
  /\ UNCHANGED <<engine, budget, gravity, timeScale, bodies, collisionMatrix, body, hist, heard, born,
                 reused, purged, steps, pushes, removals>>

(* addCollider(collider) for a collider object the caller holds *)
AddCollider(h) ==
  /\ h \in 1..Len(coll)
  /\ Len(colliders) < budget.adds
  /\ coll' = [coll EXCEPT ![h] = AddColliderId(@, Len(colliders))]
  /\ colliders' = Append(colliders, h)
  /\ last' = [NoCall EXCEPT !.op = "addCollider", !.h = h]
  /\ UNCHANGED <<engine, budget, gravity, timeScale, bodies, collisionMatrix, body, hist, heard,
                 born, reused, purged, steps, pushes, removals>>

(* removeCollider(collider), index being indexOf(collider), 0 for -1 *)
RemoveColliderAt(index) ==
  /\ index # 0 => removals < budget.removals
  /\ colliders' = IF index # 0 THEN Splice(colliders, index) ELSE colliders
  /\ hist' = HistLive(hist, bodies, colliders')
  /\ heard' = heard
  /\ removals' = IF index # 0 THEN removals + 1 ELSE removals
  /\ last' = [NoCall EXCEPT !.op = "removeCollider", !.found = index # 0]

(* removeCollider(collider) for any collider object the caller holds *)
RemoveCollider(h) ==
  /\ h \in 1..Len(coll)
  /\ RemoveColliderAt(IndexOf(colliders, h))
  /\ UNCHANGED <<engine, budget, gravity, timeScale, bodies, collisionMatrix, body, coll, born,
                 reused, purged, steps, pushes>>

(* the state update(deltaTime) starts from *)
Working ==
  [bodies |-> bodies, colliders |-> colliders, body |-> body, matrix |-> collisionMatrix,
   events |-> <<>>, pairs |-> <<>>, threw |-> FALSE, finite |-> TRUE]

(* how many times the object h is in the array s *)
Count(s, h) == Cardinality({i \in DOMAIN s : s[i] = h})

(* update(deltaTime) having led to the working state W, but for the count
   of the steps *)
UpdatedTo(W, skipped) ==
  /\ W.finite
  /\ bodies' = W.bodies
  /\ body' = W.body
  /\ collisionMatrix' = W.matrix
  /\ purged' = purged \cup {body[h].id : h \in {x \in Range(bodies) :
                                                  Count(bodies, x) > Count(W.bodies, x)}}
  /\ hist' = HistLive(HistAfter(hist, W.pairs), W.bodies, colliders)
  /\ heard' = HeardAfter(heard, W.pairs, W.events)
  /\ last' = [NoCall EXCEPT !.op = "update", !.skipped = skipped, !.threw = W.threw,
                            !.events = W.events, !.pairs = W.pairs]

(* update(deltaTime) having led to the working state W *)
UpdateAs(W, skipped) ==
  /\ W.finite
  /\ InBounds(W.bodies, W.body)
  /\ UpdatedTo(W, skipped)
  /\ steps' = IF skipped THEN steps ELSE steps + 1

(* update(deltaTime) *)
Update(deltaTime) ==
  /\ steps < budget.steps
  /\ UpdateAs(UpdateIn(Working, gravity, timeScale, deltaTime).w,
              SkipStep(deltaTime, timeScale))
  /\ UNCHANGED <<engine, budget, gravity, timeScale, colliders, coll, born, reused, pushes, removals>>

(* a call of a body method having led to r *)
PushAs(op, h, r) ==
  /\ body' = [body EXCEPT ![h] = r.body]
  /\ InBounds(<<h>>, body')
  /\ pushes' = pushes + 1
  /\ last' = [NoCall EXCEPT !.op = op, !.h = h, !.arg = r.arg]

(* body.applyForce(force) *)
ApplyForce(h, force, isVector3) ==
  /\ h \in 1..Len(body)
  /\ pushes < budget.pushes
  /\ PushAs("applyForce", h, ApplyForceTo(body[h], force, isVector3))
  /\ UNCHANGED <<engine, budget, gravity, timeScale, bodies, colliders, collisionMatrix, coll, hist, heard,
                 born, reused, purged, steps, removals>>

(* body.applyImpulse(impulse) *)
ApplyImpulse(h, impulse, isVector3) ==
  /\ h \in 1..Len(body)
  /\ pushes < budget.pushes
  /\ PushAs("applyImpulse", h, ApplyImpulseTo(body[h], impulse, isVector3))
  /\ UNCHANGED <<engine, budget, gravity, timeScale, bodies, colliders, collisionMatrix, coll, hist, heard,
                 born, reused, purged, steps, removals>>

Next ==
  \/ \E options \in BodyOptionSet : CreateBody(options)
  \/ \E h \in 1..MaxBodies : AddBody(h)
  \/ \E h \in 1..MaxBodies : RemoveBody(h)
  \/ \E options \in ColliderOptionSet : CreateCollider(options)
  \/ \E h \in 1..MaxColliders : AddCollider(h)
  \/ \E h \in 1..MaxColliders : RemoveCollider(h)
  \/ \E deltaTime \in DeltaTimeSet : Update(deltaTime)
  \/ \E h \in 1..MaxBodies, force \in ForceSet, isVector3 \in BOOLEAN :
        ApplyForce(h, force, isVector3)
  \/ \E h \in 1..MaxBodies, impulse \in ImpulseSet, isVector3 \in BOOLEAN :
        ApplyImpulse(h, impulse, isVector3)

Spec == Init /\ [][Next]_vars

----------------------------------------------------------------------------
(* _resolveCollisionDynamic on its own: two overlapping non-static boxes,
   as createBody makes them from a position and a velocity, and one call of
   the resolver on them.  born keeps the pair as it was before the call. *)

DynOffsetSet ==
  { Vec10(0, 4, 0), Vec10(0, -4, 0), Vec10(4, 0, 0), Vec10(4, 8, 0), Vec10(-8, -6, 0),
    Vec10(4, 0, 3), Zero3 }

DynVelocitySet == { Vec(vx, vy, 0) : vx, vy \in {-1, 0, 1} } \cup { Vec(-3, 4, 0), Vec(1, 0, 2) }

DynRestitutionSet == { FromRatio(1, 2), FOne }

DynMassSet == { FOne, FromRatio(3, 1) }

InitDyn ==
  /\ gravity = Constructor([gravity |-> Vec(0, -1, 0)]).gravity
  /\ timeScale = Constructor([gravity |-> Vec(0, -1, 0)]).timeScale
  /\ \E vA, vB \in DynVelocitySet, offset \in DynOffsetSet,
        e \in DynRestitutionSet, mass \in DynMassSet :
        body = << NewBody([velocity |-> vA, restitution |-> e], 0),
                  NewBody([position |-> offset, velocity |-> vB, restitution |-> FOne,
                           mass |-> mass], 1) >>
  /\ born = body
  /\ bodies = <<1, 2>>
  /\ colliders = <<>>
  /\ collisionMatrix = [r \in {} |-> EmptyRow]
  /\ coll = <<>>
  /\ last = NoCall
  /\ hist = [key \in {} |-> FALSE]
  /\ heard = NoEvents
  /\ reused = {}
  /\ purged = {}
  /\ steps = 0
  /\ pushes = 0
  /\ removals = 0
  /\ engine = NewEngine
  /\ budget \in BudgetSet /\ budget.pushes > 0

(* the call having returned r *)
ResolveDynamicAs(r) ==
  /\ r.finite
  /\ ~r.threw
  /\ body' = r.objects
  /\ last' = [NoCall EXCEPT !.op = "resolveDynamic"]

(* this._resolveCollisionDynamic(bodyA, bodyB) *)
ResolveDynamic ==
  /\ last.op = "new"
  /\ ResolveDynamicAs(ResolveCollisionDynamic(body, 1, 2))
  /\ UNCHANGED <<engine, budget, gravity, timeScale, bodies, colliders, collisionMatrix, coll, hist, heard,
                 born, reused, purged, steps, pushes, removals>>

NextDyn == ResolveDynamic

SpecDyn == InitDyn /\ [][NextDyn]_vars

----------------------------------------------------------------------------
(* What the claims speak of *)

(* the callbacks of collider c invoked with body a, in order *)
RECURSIVE EventsOf(_, _, _)
EventsOf(events, c, a) ==
  IF events = <<>>
  THEN <<>>
  ELSE IF Head(events).collider = c /\ Head(events).body = a
  THEN <<Head(events).cb>> \o EventsOf(Tail(events), c, a)
  ELSE EventsOf(Tail(events), c, a)

(* the entries of the pass's evaluations *)
PairsOf(l) == {l.pairs[n] : n \in 1..Len(l.pairs)}

PairTransition(p) == Transition(p.isColliding, p.wasColliding)

(* the caller registers its objects through createBody and createCollider
   only: the run makes no addBody and no addCollider call of its own *)
CreatedOnly == budget.adds = 0

(* a step of the system that is an update call which ran the step *)
RanStep == last'.op = "update" /\ ~last'.skipped

(* the registered objects have pairwise distinct ids *)
DistinctIds(handles, objects) ==
  \A g, h \in Range(handles) : g # h => objects[g].id # objects[h].id

----------------------------------------------------------------------------
(* C1: Enter/Stay/Exit sequencing.  For a non-static body A and a trigger
   collider C with its three trigger callbacks defined, A overlapping C at k
   consecutive passes after a pass without overlap and before one without
   gives C exactly onTriggerEnter, then k-1 onTriggerStay, then
   onTriggerExit.  Stated pass by pass: when the pair was evaluated at the
   pass before (hist) and is evaluated again, C receives exactly the one
   callback that the two overlaps call for, and none when there was and is
   no overlap. *)

ExpectedTrigger(before, now) ==
  IF ~before /\ now THEN <<"onTriggerEnter">>
  ELSE IF before /\ now THEN <<"onTriggerStay">>
  ELSE IF before /\ ~now THEN <<"onTriggerExit">>
  ELSE <<>>

TriggerListener(c) ==
  /\ coll[c].isTrigger
  /\ coll[c].onTriggerEnter = "log"
  /\ coll[c].onTriggerStay = "log"
  /\ coll[c].onTriggerExit = "log"

C1_EnterStayExit ==
  [][(CreatedOnly /\ RanStep) =>
       \A p \in PairsOf(last') :
          (/\ ~p.isBody
           /\ p.live
           /\ TriggerListener(p.x)
           /\ <<p.a, FALSE, p.x>> \in DOMAIN hist)
          => EventsOf(last'.events, p.x, p.a)
               = ExpectedTrigger(hist[<<p.a, FALSE, p.x>>], p.isColliding)]_vars

----------------------------------------------------------------------------
(* C2: a collider made by createCollider with isTrigger false is a solid
   obstacle.  At a pass where a non-static body A enters or stays in
   overlap with it, A is resolved against it by the static resolver and
   then onCollisionEnter / onCollisionStay is invoked with A; when the
   overlap ends only onCollisionExit is invoked and nothing is resolved. *)

(* the body with handle h as the integration of this step leaves it *)
IntegratedBy(h, deltaTime) == Integrate(body[h], gravity, FMul(deltaTime, timeScale))

(* p is the only evaluation of the pass that found body p.a in contact *)
SoleContact(l, p) ==
  \A q \in PairsOf(l) :
     (q.isColliding /\ (q.a = p.a \/ (q.isBody /\ q.x = p.a))) => q = p

(* no evaluation of the pass found body a in contact *)
NoContact(l, a) ==
  \A q \in PairsOf(l) : q.isColliding => (q.a # a /\ ~(q.isBody /\ q.x = a))

SolidCallback(t) ==
  IF t = "enter" THEN <<"onCollisionEnter">>
  ELSE IF t = "stay" THEN <<"onCollisionStay">>
  ELSE IF t = "exit" THEN <<"onCollisionExit">>
  ELSE <<>>

SolidListener(c) ==
  /\ ~coll[c].isTrigger
  /\ coll[c].onCollisionEnter = "log"
  /\ coll[c].onCollisionStay = "log"
  /\ coll[c].onCollisionExit = "log"

C2_SolidColliderResolved ==
  [][(CreatedOnly /\ RanStep) =>
       \A p \in PairsOf(last') :
          (~p.isBody /\ p.live /\ SolidListener(p.x))
          => /\ EventsOf(last'.events, p.x, p.a) = SolidCallback(PairTransition(p))
             /\ (p.isColliding /\ SoleContact(last', p))
                => \E deltaTime \in DeltaTimeSet :
                      /\ ~SkipStep(deltaTime, timeScale)
                      /\ body'[p.a] = ResolveCollision(IntegratedBy(p.a, deltaTime), coll[p.x])
             /\ (PairTransition(p) = "exit" /\ NoContact(last', p.a))
                => \E deltaTime \in DeltaTimeSet :
                      /\ ~SkipStep(deltaTime, timeScale)
                      /\ body'[p.a] = IntegratedBy(p.a, deltaTime)]_vars

----------------------------------------------------------------------------
(* C5: object ids are unique.  All bodies registered at one time have
   pairwise distinct ids, and so have all colliders, when ids are left to
   createBody and createCollider. *)

C5_DistinctIds == DistinctIds(bodies, body) /\ DistinctIds(colliders, coll)

----------------------------------------------------------------------------
(* C8: update always completes.  With callbacks that do not throw, every
   update call returns normally, having either skipped the whole step or
   integrated every non-static body and evaluated every (body, other)
   pair. *)

(* the pass evaluated the non-static body a against the object x *)
Evaluated(l, a, isBody, x) ==
  \E p \in PairsOf(l) : p.a = a /\ p.isBody = isBody /\ p.x = x

EveryPairEvaluated(l) ==
  \A a \in Range(bodies) :
     ~body[a].isStatic
     => /\ \A b \in Range(bodies) \ {a} : Evaluated(l, a, TRUE, b)
        /\ \A c \in Range(colliders) : Evaluated(l, a, FALSE, c)

C8_UpdateCompletes ==
  (CreatedOnly /\ last.op = "update")
  => /\ ~last.threw
     /\ last.skipped \/ EveryPairEvaluated(last)

----------------------------------------------------------------------------
(* C3: dynamic-dynamic impulse direction.  For two overlapping non-static
   bodies the dynamic resolver returns without changing anything only when
   the bodies are moving apart along the line between their centres; when
   they are moving toward each other it applies the impulse and the
   separation.  born holds the pair before the call, body after it. *)

(* the rate at which B moves away from A along the line from A to B, up to
   the positive factor of the distance *)
SeparationRate(A, B) ==
  Dot(Sub3(B.velocity, A.velocity), Sub3(B.position, A.position))

MovingApart(A, B) == FLess(FZero, SeparationRate(A, B))

MovingToward(A, B) == FLess(SeparationRate(A, B), FZero)

C3_ImpulseWhenApproaching ==
  last.op = "resolveDynamic"
  => /\ body = born => MovingApart(born[1], born[2])
     /\ MovingToward(born[1], born[2])
        => /\ body[1].velocity # born[1].velocity
           /\ body[2].velocity # born[2].velocity
           /\ body[1].position # born[1].position
           /\ body[2].position # born[2].position

----------------------------------------------------------------------------
(* C4: removing a body forgets its collision history.  Right after
   removeBody(b) on a registered body no collision-matrix entry mentions
   b.id, as a row or as a column; so a body later registered under that id
   is classified Enter, never Stay or Exit, at its first overlap
   evaluation against each object.  The bodies are registered by createBody
   only, so that no two registered bodies are one object. *)

(* the handles removeBody has just unregistered *)
JustRemoved == Range(bodies) \ Range(bodies')

FirstEvaluation(p) == <<p.a, p.isBody, p.x>> \notin DOMAIN hist

(* the pair's second object is another object than its body *)
AgainstAnother(p) == ~(p.isBody /\ p.x = p.a)

C4_RemovalForgetsHistory ==
  [][/\ last'.op = "removeBody"
        => \A h \in JustRemoved : body[h].id \notin MatrixIds(collisionMatrix')
     /\ (CreatedOnly /\ RanStep)
        => \A p \in PairsOf(last') :
              (p.a \in reused /\ p.live /\ FirstEvaluation(p) /\ AgainstAnother(p))
              => PairTransition(p) \in {"enter", "none"}]_vars

----------------------------------------------------------------------------
(* C6: no matrix entries for unregistered bodies.  After any sequence of
   calls the collision matrix holds no row and no column for the id of a
   body that has been removed with removeBody and is not registered
   again. *)

(* ids of the bodies created and no longer registered: createBody
   registers every body, so they were removed by removeBody *)
RemovedIds == {body[h].id : h \in (DOMAIN body) \ Range(bodies)}

RegisteredIds == {body[h].id : h \in Range(bodies)}

C6_NoEntriesForRemoved ==
  CreatedOnly => \A id \in RemovedIds \ RegisteredIds : id \notin MatrixIds(collisionMatrix)

----------------------------------------------------------------------------
(* C7: static bodies never move.  A body with isStatic = true keeps exactly
   the position and the velocity it was created with, through any sequence
   of update, applyForce and applyImpulse calls, whatever overlaps it. *)

C7_StaticNeverMoves ==
  \A h \in DOMAIN body :
     body[h].isStatic
     => /\ body[h].position = born[h].position
        /\ body[h].velocity = born[h].velocity

(* an update pass has just found a non-static body in contact with a
   registered static body *)
C7_StaticHit ==
  /\ last.op = "update"
  /\ \E p \in PairsOf(last) :
        /\ p.isBody
        /\ p.isColliding
        /\ body[p.x].isStatic
        /\ p.x \in Range(bodies)
        /\ ~body[p.a].isStatic

----------------------------------------------------------------------------
(* C9: trigger volumes never push.  An update pass invokes on a collider
   with isTrigger = true only onTriggerEnter / Stay / Exit, and a non-static
   body whose only contacts in the pass are with trigger colliders ends the
   pass with exactly its integrated position and velocity. *)

TriggerCallbacks == {"onTriggerEnter", "onTriggerStay", "onTriggerExit"}

(* the pass found body a in contact with a trigger collider, and in
   contact with nothing else *)
OnlyTriggerContacts(l, a) ==
  /\ \E q \in PairsOf(l) :
        q.a = a /\ ~q.isBody /\ q.isColliding /\ coll[q.x].isTrigger
  /\ \A q \in PairsOf(l) :
        (q.isColliding /\ (q.a = a \/ (q.isBody /\ q.x = a)))
        => (~q.isBody /\ coll[q.x].isTrigger)

C9_TriggersNeverPush ==
  [][RanStep =>
       /\ \A n \in 1..Len(last'.events) :
             coll[last'.events[n].collider].isTrigger
             => last'.events[n].cb \in TriggerCallbacks
       /\ \A a \in Range(bodies) :
             (~body[a].isStatic /\ OnlyTriggerContacts(last', a))
             => \E deltaTime \in DeltaTimeSet :
                   /\ ~SkipStep(deltaTime, timeScale)
                   /\ body'[a].position = IntegratedBy(a, deltaTime).position
                   /\ body'[a].velocity = IntegratedBy(a, deltaTime).velocity]_vars

(* an update pass has just found a registered body still inside a trigger
   collider and called its onTriggerStay *)
C9_InsideTrigger ==
  /\ last.op = "update"
  /\ \E p \in PairsOf(last) :
        /\ ~p.isBody
        /\ coll[p.x].isTrigger
        /\ PairTransition(p) = "stay"
        /\ p.a \in Range(bodies)
        /\ OnlyTriggerContacts(last, p.a)
        /\ EventsOf(last.events, p.x, p.a) = <<"onTriggerStay">>

----------------------------------------------------------------------------
(* C10: skip guard.  When deltaTime * timeScale < 1e-4, zero and negative
   values included, update changes no body's position, velocity or
   acceleration, changes no collision-matrix entry and invokes no
   callback. *)

C10_SkipGuard ==
  [][(last'.op = "update" /\ last'.skipped)
     => /\ body' = body
        /\ collisionMatrix' = collisionMatrix
        /\ last'.events = <<>>]_vars

(* a skipped update on a system where a step would have had work to do: a
   registered non-static body with a force applied, and another object *)
C10_Skipped ==
  /\ last.op = "update"
  /\ last.skipped
  /\ Len(bodies) + Len(colliders) >= 2
  /\ \E h \in Range(bodies) : ~body[h].isStatic /\ body[h].acceleration # Zero3
----------------------------------------------------------------------------
(* update on a system holding one non-static body and nothing else: the
   body is created at rest, then update(1) is called again and again, so
   that the scaled step is timeScale. *)

FallGravitySet == { Vec(gx, gy, 0) : gx \in {-1, 0, 1}, gy \in {-2, -1, 1, 2} }

FallTimeScaleSet == { FromRatio(1, 2), FOne }

FallPositionSet == { Vec(0, 4, 0), Vec(0, 0, 0), Vec(0, -2, 0) }

InitFall ==
  /\ \E g \in FallGravitySet, ts \in FallTimeScaleSet :
        /\ gravity = Constructor([gravity |-> g, timeScale |-> ts]).gravity
        /\ timeScale = Constructor([gravity |-> g, timeScale |-> ts]).timeScale
  /\ \E position \in FallPositionSet :
        body = << NewBody([position |-> position], 0) >>
  /\ born = body
  /\ bodies = <<1>>
  /\ colliders = <<>>
  /\ collisionMatrix = [r \in {} |-> EmptyRow]
  /\ coll = <<>>
  /\ last = NoCall
  /\ hist = [key \in {} |-> FALSE]
  /\ heard = NoEvents
  /\ reused = {}
  /\ purged = {}
  /\ steps = 0
  /\ pushes = 0
  /\ removals = 0
  /\ engine = NewEngine
  /\ budget \in BudgetSet /\ budget.pushes > 0

NextFall == Update(FOne)

SpecFall == InitFall /\ [][NextFall]_vars

----------------------------------------------------------------------------
(* C11: semi-implicit Euler integration.  A non-static body that collides
   with nothing and starts at rest has, after n update calls with the scaled
   step dt under gravity g, velocity.y = g dt n and
   position.y = y0 + g dt^2 n (n + 1) / 2.  In SpecFall n is steps and dt is
   timeScale; g, dt and y0 are integers and halves, so that no operation
   of either side rounds. *)

----------------------------------------------------------------------------
(* _resolveCollision on its own: a non-static box as createBody makes it
   from a position, a velocity and a restitution, a static box it overlaps
   on the three axes, and one call of the resolver on them.  born keeps the
   pair as it was before the call. *)

StaticOffsetSet ==
  { Vec10(0, 8, 0), Vec10(0, -8, 0), Vec10(0, 3, 0), Vec10(8, 3, 0), Vec10(-8, 3, 0),
    Vec10(0, 3, 8), Vec10(0, 3, -8), Zero3 }

StaticVelocitySet == { Vec(vx, vy, 0) : vx \in {-1, 0, 1}, vy \in {-2, -1, 0, 1} }

StaticBodyOptionSet ==
  { [position |-> offset, velocity |-> v] : offset \in StaticOffsetSet, v \in StaticVelocitySet }
  \cup { [position |-> offset, velocity |-> v, restitution |-> FromRatio(1, 2)] :
           offset \in StaticOffsetSet, v \in StaticVelocitySet }
  \cup { [position |-> offset, velocity |-> v, restitution |-> FOne] :
           offset \in StaticOffsetSet, v \in StaticVelocitySet }

StaticObjectOptionSet ==
  { [isStatic |-> TRUE, dimensions |-> Vec(1, 1, 1)],
    [isStatic |-> TRUE, dimensions |-> Vec(10, 1, 1), friction |-> FOne] }

(* the static objects: those createBody makes, and the same objects with
   friction 0, as the caller can make them and register them with addBody *)
StaticObjectSet ==
  { NewBody(staticOptions, 1) : staticOptions \in StaticObjectOptionSet }
  \cup { [NewBody(staticOptions, 1) EXCEPT !.friction = FZero] :
           staticOptions \in StaticObjectOptionSet }

InitStatic ==
  /\ gravity = Constructor([gravity |-> Vec(0, -1, 0)]).gravity
  /\ timeScale = Constructor([gravity |-> Vec(0, -1, 0)]).timeScale
  /\ \E options \in StaticBodyOptionSet, staticObj \in StaticObjectSet :
        body = << NewBody(options, 0), staticObj >>
  /\ born = body
  /\ bodies = <<1, 2>>
  /\ colliders = <<>>
  /\ collisionMatrix = [r \in {} |-> EmptyRow]
  /\ coll = <<>>
  /\ last = NoCall
  /\ hist = [key \in {} |-> FALSE]
  /\ heard = NoEvents
  /\ reused = {}
  /\ purged = {}
  /\ steps = 0
  /\ pushes = 0
  /\ removals = 0
  /\ engine = NewEngine
  /\ budget \in BudgetSet /\ budget.pushes > 0

(* the call having left the body as r *)
ResolveStaticAs(r) ==
  /\ InRange3(r.position)
  /\ InRange3(r.velocity)
  /\ body' = [body EXCEPT ![1] = r]
  /\ last' = [NoCall EXCEPT !.op = "resolveStatic"]

(* this._resolveCollision(body, staticObj) *)
ResolveStatic ==
  /\ last.op = "new"
  /\ CheckCollision(body[1], body[2])
  /\ ResolveStaticAs(ResolveCollision(body[1], body[2]))
  /\ UNCHANGED <<engine, budget, gravity, timeScale, bodies, colliders, collisionMatrix, coll, hist, heard,
                 born, reused, purged, steps, pushes, removals>>

NextStatic == ResolveStatic

SpecStatic == InitStatic /\ [][NextStatic]_vars

----------------------------------------------------------------------------
(* C13: restitution bound.  For a non-static body with restitution r
   resolved against a static object on the y axis, velocity.y right after
   the resolution is -r times velocity.y right before it. *)

C13_ReboundSpeed ==
  (last.op = "resolveStatic" /\ SmallestAxis(Overlap(born[1], born[2])) = 2)
  => body[1].velocity[2] = FNeg(FMul(born[1].restitution, born[1].velocity[2]))

(* a body with restitution 0.5 that hit the static box from above at
   speed 2 and was resolved on the y axis *)
C13_Rebound ==
  /\ last.op = "resolveStatic"
  /\ SmallestAxis(Overlap(born[1], born[2])) = 2
  /\ born[1].restitution = FromRatio(1, 2)
  /\ born[1].velocity[2] = FromRatio(-2, 1)
  /\ FLess(born[2].position[2], born[1].position[2])

----------------------------------------------------------------------------
(* C14: momentum conservation, up to rounding.  For two non-static bodies
   of positive masses every call of _resolveCollisionDynamic(A, B) leaves
   mA * vA + mB * vB, computed in doubles, within 1e-8 of its value before
   the call on each of the three components. *)

Momentum(A, B, k) == FAdd(FMul(A.mass, A.velocity[k]), FMul(B.mass, B.velocity[k]))

(* 1e-8 *)
Rounding == FMul(FromRatio(1, 10000), FromRatio(1, 10000))

(* |x - y| <= 1e-8 *)
Close(x, y) == FLessEq(FAbs(FSub(x, y)), Rounding)

C14_MomentumConserved ==
  last.op = "resolveDynamic"
  => \A k \in 1..3 : Close(Momentum(body[1], body[2], k), Momentum(born[1], born[2], k))

(* C14 as the claim has it: every call of _resolveCollisionDynamic(A, B)
   leaves mA * vA + mB * vB unchanged on each of the x, y and z components. *)
C14_MomentumUnchanged ==
  last.op = "resolveDynamic"
  => \A k \in 1..3 : Momentum(body[1], body[2], k) = Momentum(born[1], born[2], k)

(* the impulse was applied to two bodies of different masses and changed
   the z component of both velocities *)
C14_ImpulseApplied ==
  /\ last.op = "resolveDynamic"
  /\ born[1].mass # born[2].mass
  /\ body[1].velocity[3] # born[1].velocity[3]
  /\ body[2].velocity[3] # born[2].velocity[3]

----------------------------------------------------------------------------
(* _checkCollision on its own: two objects as createBody makes them, of
   shape "box" or "sphere", and one call on them in either order.  last.h
   is the handle of the first argument, last.found the value returned.  The
   first object is at one of the positions of CheckPositionSet, the second
   at one of CheckPlaceSet. *)

CheckPositionSet ==
  { Zero3, Vec(1, 0, 0), Vec(-1, 0, 0), Vec(0, 1, 0), Vec(0, 0, -1), Vec(2, 0, 0),
    Vec10(9, 0, 0), Vec10(11, 0, 0), Vec10(9, -9, 9), Vec10(9, 10, 9),
    Vec10(-15, 0, 0), Vec10(-14, 0, 0), Vec10(19, 0, 0), Vec10(-1, 0, 0) }

CheckPlaceSet == { Zero3, Vec10(9, 0, 0) }

CheckShapeSet == { "box", "sphere" }

CheckDimensionsSet == { Vec(1, 1, 1), Vec(2, 1, 1) }

InitCheck ==
  /\ gravity = Constructor([gravity |-> Vec(0, -1, 0)]).gravity
  /\ timeScale = Constructor([gravity |-> Vec(0, -1, 0)]).timeScale
  /\ \E position \in CheckPositionSet, place \in CheckPlaceSet,
        shapeA, shapeB \in CheckShapeSet, dimensions \in CheckDimensionsSet :
        body = << NewBody([position |-> position, shape |-> shapeA], 0),
                  NewBody([position |-> place, shape |-> shapeB,
                           dimensions |-> dimensions], 1) >>
  /\ born = body
  /\ bodies = <<1, 2>>
  /\ colliders = <<>>
  /\ collisionMatrix = [r \in {} |-> EmptyRow]
  /\ coll = <<>>
  /\ last = NoCall
  /\ hist = [key \in {} |-> FALSE]
  /\ heard = NoEvents
  /\ reused = {}
  /\ purged = {}
  /\ steps = 0
  /\ pushes = 0
  /\ removals = 0
  /\ engine = NewEngine
  /\ budget \in BudgetSet /\ budget.pushes > 0

(* this._checkCollision(a, b), a and b being the bodies with handles first
   and second *)
CheckPair(first, second) ==
  /\ last.op = "new"
  /\ first # second
  /\ last' = [NoCall EXCEPT !.op = "checkCollision", !.h = first,
                            !.found = CheckCollision(body[first], body[second])]
  /\ UNCHANGED <<engine, budget, gravity, timeScale, bodies, colliders, collisionMatrix, body, coll,
                 hist, heard, born, reused, purged, steps, pushes, removals>>

NextCheck == \E first, second \in 1..2 : CheckPair(first, second)

SpecCheck == InitCheck /\ [][NextCheck]_vars

----------------------------------------------------------------------------
(* C15: checkCollision is symmetric and box-only.  checkCollision(a, b)
   equals checkCollision(b, a), and it is true exactly when both shapes are
   "box" and on each axis 2 |posA - posB| < dimA + dimB, strictly: boxes
   whose faces exactly touch, and pairs with a non-box shape, do not
   collide. *)

(* on every axis the centres are less than half the summed dimensions
   apart; halving a double is exact *)
StrictOverlap(a, b) ==
  \A k \in 1..3 : FLess(FAbs(FSub(a.position[k], b.position[k])),
                        FHalf(FAdd(a.dimensions[k], b.dimensions[k])))

C15_SymmetricBoxOnly ==
  last.op = "checkCollision"
  => /\ last.found = CheckCollision(body[3 - last.h], body[last.h])
     /\ last.found <=> (/\ body[last.h].shape = "box"
                        /\ body[3 - last.h].shape = "box"
                        /\ StrictOverlap(body[last.h], body[3 - last.h]))

(* two boxes whose faces exactly touch on the x axis, found not to collide *)
C15_TouchingFaces ==
  /\ last.op = "checkCollision"
  /\ ~last.found
  /\ body[1].shape = "box"
  /\ body[2].shape = "box"
  /\ FDouble(FAbs(FSub(body[1].position[1], body[2].position[1])))
       = FAdd(body[1].dimensions[1], body[2].dimensions[1])
  /\ body[1].position[2] = body[2].position[2]
  /\ body[1].position[3] = body[2].position[3]

----------------------------------------------------------------------------
(* createBody on its own: an empty system and calls of createBody with every
   combination of the numeric, boolean and string options supplied or
   omitted, and with an id, empty or not.  last.arg is the options object
   of the call. *)

CreateMassSet == { FZero, FNeg(FOne), FromRatio(2, 1) }

CreateRestitutionSet == { FZero, FromRatio(1, 2) }

CreateFrictionSet == { FZero, FOne }

CreateIdSet == { "", "crate" }

(* the options object holding the fields of o named in fields *)
Supplying(o, fields) == [f \in fields |-> o[f]]

CreateOptionSet ==
  { Supplying([mass |-> mass, restitution |-> restitution, friction |-> friction,
               isStatic |-> TRUE, shape |-> "sphere"], fields) :
      mass \in CreateMassSet, restitution \in CreateRestitutionSet,
      friction \in CreateFrictionSet,
      fields \in SUBSET {"mass", "restitution", "friction", "isStatic", "shape"} }
  \cup { [id |-> id] : id \in CreateIdSet }

InitCreate ==
  /\ gravity = Constructor([gravity |-> Vec(0, -1, 0)]).gravity
  /\ timeScale = Constructor([gravity |-> Vec(0, -1, 0)]).timeScale
  /\ bodies = <<>>
  /\ colliders = <<>>
  /\ collisionMatrix = [r \in {} |-> EmptyRow]
  /\ body = <<>>
  /\ coll = <<>>
  /\ last = NoCall
  /\ hist = [key \in {} |-> FALSE]
  /\ heard = NoEvents
  /\ born = <<>>
  /\ reused = {}
  /\ purged = {}
  /\ steps = 0
  /\ pushes = 0
  /\ removals = 0
  /\ engine = NewEngine
  /\ budget \in BudgetSet /\ budget.pushes > 0

(* createBody(options): return this.addBody(body) *)
CreateBodyWith(options) ==
  /\ Len(body) < budget.bodies
  /\ body' = Append(body, AddBodyId(NewBody(options, Len(bodies)), Len(bodies)))
  /\ born' = body'
  /\ bodies' = Append(bodies, Len(body) + 1)
  /\ last' = [NoCall EXCEPT !.op = "createBody", !.h = Len(body) + 1, !.arg = options]
  /\ UNCHANGED <<engine, budget, gravity, timeScale, colliders, collisionMatrix, coll, hist, heard, purged,
                 reused, steps, pushes, removals>>

NextCreate == \E options \in CreateOptionSet : CreateBodyWith(options)

SpecCreate == InitCreate /\ [][NextCreate]_vars

----------------------------------------------------------------------------
(* C16: createBody keeps what the caller supplies.  The body createBody
   registers and returns has the caller's mass, restitution, friction,
   isStatic and shape wherever the option is supplied with a value in its
   range (mass > 0, restitution and friction from 0 to 1, both ends
   included), and the defaults 1.0, 0.3, 0.5, false and "box" only where
   the option is omitted. *)

Supplied(o, f) == f \in DOMAIN o

FromZeroToOne(x) == FLessEq(FZero, x) /\ FLessEq(x, FOne)

C16_KeepsSupplied ==
  last.op = "createBody"
  => /\ last.h \in Range(bodies)
     /\ Supplied(last.arg, "mass") /\ FLess(FZero, last.arg.mass)
          => body[last.h].mass = last.arg.mass
     /\ ~Supplied(last.arg, "mass") => body[last.h].mass = FOne
     /\ Supplied(last.arg, "restitution") /\ FromZeroToOne(last.arg.restitution)
          => body[last.h].restitution = last.arg.restitution
     /\ ~Supplied(last.arg, "restitution") => body[last.h].restitution = FromRatio(3, 10)
     /\ Supplied(last.arg, "friction") /\ FromZeroToOne(last.arg.friction)
          => body[last.h].friction = last.arg.friction
     /\ ~Supplied(last.arg, "friction") => body[last.h].friction = FromRatio(5, 10)
     /\ body[last.h].isStatic = (IF Supplied(last.arg, "isStatic") THEN last.arg.isStatic ELSE FALSE)
     /\ body[last.h].shape = (IF Supplied(last.arg, "shape") THEN last.arg.shape ELSE "box")

----------------------------------------------------------------------------
(* C17: positive mass.  Every registered body that is not static has
   mass > 0: a createBody call asking for a non-static body of zero or
   negative mass registers no body with such a mass. *)

C17_PositiveMass ==
  \A h \in Range(bodies) : ~body[h].isStatic => FLess(FZero, body[h].mass)

----------------------------------------------------------------------------
(* C18: removing an absent object is a no-op.  removeBody(b) for a b that
   is not in the body collection, and removeCollider(c) for a c that is not
   in the collider collection, raise no error and leave the body
   collection, the collider collection and every collision-matrix entry as
   they were, even when a registered object has the same id as b or c. *)

AbsentRemoval(l) == l.op \in {"removeBody", "removeCollider"} /\ ~l.found

C18_AbsentRemovalNoOp ==
  [][AbsentRemoval(last')
       => /\ ~last'.threw
          /\ bodies' = bodies
          /\ colliders' = colliders
          /\ collisionMatrix' = collisionMatrix]_vars

(* the bodies the caller still holds that are no longer registered *)
AbsentBodies == (1..Len(body)) \ Range(bodies)

(* removeBody was called with a body that is not registered while a
   registered body has its id and the matrix holds entries under that id;
   this is so for every body that is not registered, hence for the one of
   the call *)
C18_AbsentWithSharedId ==
  /\ last.op = "removeBody"
  /\ ~last.found
  /\ AbsentBodies # {}
  /\ \A h \in AbsentBodies :
        /\ \E g \in Range(bodies) : body[g].id = body[h].id
        /\ body[h].id \in MatrixIds(collisionMatrix)

----------------------------------------------------------------------------
(* The Engine around the system: start(), stop(), and animate() run by the
   browser's animation frames.  The engine's system is new PhysicsSystem();
   the scene, the renderer and the stats are left out.  requestAnimationFrame
   queues its callback for the next animation frame; an animation frame runs
   the callbacks queued before it began, one after the other, and nothing
   else runs in between. *)

(* (performance.now() - this.lastTime) / 1000 *)
EngineDeltaTimeSet == { FZero, FOne }

InitEngine ==
  /\ gravity = Constructor(<<>>).gravity
  /\ timeScale = Constructor(<<>>).timeScale
  /\ bodies = <<>>
  /\ colliders = <<>>
  /\ collisionMatrix = [r \in {} |-> EmptyRow]
  /\ body = <<>>
  /\ coll = <<>>
  /\ last = NoCall
  /\ hist = [key \in {} |-> FALSE]
  /\ heard = NoEvents
  /\ born = <<>>
  /\ reused = {}
  /\ purged = {}
  /\ steps = 0
  /\ pushes = 0
  /\ removals = 0
  /\ engine = NewEngine
  /\ budget \in BudgetSet /\ budget.pushes > 0

(* animate() on the engine e; counted: the call is an animation-frame
   callback *)
AnimateAs(e, deltaTime, counted) ==
  IF ~e.isRunning
  THEN /\ engine' = e
       /\ UNCHANGED <<bodies, body, collisionMatrix, purged, hist, heard, steps, last>>
  ELSE /\ engine' = [e EXCEPT !.requests = @ + 1,
                              !.calls = IF counted THEN @ + 1 ELSE @,
                              !.elapsedTime = FAdd(@, deltaTime)]
       /\ UpdateAs(UpdateIn(Working, gravity, timeScale, deltaTime).w,
                   SkipStep(deltaTime, timeScale))

(* start() *)
Start(deltaTime) ==
  /\ engine.queue = 0
  /\ engine.starts < MaxStarts
  /\ IF engine.isRunning
     THEN /\ engine' = [engine EXCEPT !.starts = @ + 1]
          /\ UNCHANGED <<bodies, body, collisionMatrix, purged, hist, heard, steps, last>>
     ELSE AnimateAs([engine EXCEPT !.isRunning = TRUE, !.starts = @ + 1], deltaTime, FALSE)
  /\ UNCHANGED <<budget, gravity, timeScale, colliders, coll, born, reused, pushes, removals>>

(* stop() *)
Stop ==
  /\ engine.queue = 0
  /\ engine' = [engine EXCEPT !.isRunning = FALSE]
  /\ UNCHANGED <<budget, gravity, timeScale, bodies, colliders, collisionMatrix, body, coll,
                 last, hist, heard, born, reused, purged, steps, pushes, removals>>

(* the browser begins an animation frame *)
AnimationFrame ==
  /\ engine.queue = 0
  /\ engine.requests > 0
  /\ engine.frames < MaxFrames
  /\ engine' = [engine EXCEPT !.queue = engine.requests, !.requests = 0,
                              !.frames = @ + 1, !.calls = 0]
  /\ UNCHANGED <<budget, gravity, timeScale, bodies, colliders, collisionMatrix, body, coll,
                 last, hist, heard, born, reused, purged, steps, pushes, removals>>

(* the animation frame runs its next callback, this.animate.bind(this) *)
AnimateCallback(deltaTime) ==
  /\ engine.queue > 0
  /\ AnimateAs([engine EXCEPT !.queue = @ - 1], deltaTime, TRUE)
  /\ UNCHANGED <<budget, gravity, timeScale, colliders, coll, born, reused, pushes, removals>>

NextEngine ==
  \/ \E deltaTime \in EngineDeltaTimeSet : Start(deltaTime)
  \/ Stop
  \/ AnimationFrame
  \/ \E deltaTime \in EngineDeltaTimeSet : AnimateCallback(deltaTime)

SpecEngine == InitEngine /\ [][NextEngine]_vars

----------------------------------------------------------------------------
(* C19: one physics step per frame.  For every sequence of start() and
   stop() calls interleaved with animation-frame callbacks, update is called
   at most once per animation frame, and is not called by a callback that
   runs while the engine is stopped. *)

CallbackRan == engine'.queue < engine.queue

C19_OneStepPerFrame ==
  [][/\ engine'.calls <= 1
     /\ CallbackRan /\ ~engine.isRunning => engine'.calls = engine.calls /\ steps' = steps]_vars

----------------------------------------------------------------------------
(* _resolveCollision on its own, away from the origin: the pairs of
   InitStatic, placed around several points, and one call of the resolver
   on them.  The body's position is the offset plus the place, as the
   caller computes it.  born keeps the pair as it was before the call. *)

StaticPlaceSet == { Zero3, Vec10(-18, 0, 0), Vec10(0, -13, 0), Vec(2, 1, -3), Vec10(-9, -10, 0) }

InitPlaced ==
  /\ gravity = Constructor([gravity |-> Vec(0, -1, 0)]).gravity
  /\ timeScale = Constructor([gravity |-> Vec(0, -1, 0)]).timeScale
  /\ \E options \in StaticBodyOptionSet, staticObj \in StaticObjectSet, place \in StaticPlaceSet :
        body = << NewBody([options EXCEPT !.position = Add3(@, place)], 0),
                  [staticObj EXCEPT !.position = place] >>
  /\ born = body
  /\ bodies = <<1, 2>>
  /\ colliders = <<>>
  /\ collisionMatrix = [r \in {} |-> EmptyRow]
  /\ coll = <<>>
  /\ last = NoCall
  /\ hist = [key \in {} |-> FALSE]
  /\ heard = NoEvents
  /\ reused = {}
  /\ purged = {}
  /\ steps = 0
  /\ pushes = 0
  /\ removals = 0
  /\ engine = NewEngine
  /\ budget \in BudgetSet /\ budget.pushes > 0

NextPlaced == ResolveStatic

SpecPlaced == InitPlaced /\ [][NextPlaced]_vars

----------------------------------------------------------------------------
(* C12: no residual penetration after static resolution.  For a non-static
   body overlapping a static object on the three axes, after
   _resolveCollision the overlap on the resolved axis is <= 0: the body has
   moved by the penetration depth away from the other object's centre (in
   the positive direction when the centres coincide on that axis), so
   checkCollision(body, staticObj) is false, and its position on the two
   other axes is unchanged. *)

ResolvedAxis == SmallestAxis(Overlap(born[1], born[2]))

C12_NoResidualPenetration ==
  last.op = "resolveStatic"
  => /\ ~FLess(FZero, OverlapOn(body[1], body[2], ResolvedAxis))
     /\ ~CheckCollision(body[1], body[2])
     /\ body[1].position[ResolvedAxis]
          = FAdd(born[1].position[ResolvedAxis],
                 IF FLess(born[1].position[ResolvedAxis], born[2].position[ResolvedAxis])
                 THEN FNeg(OverlapOn(born[1], born[2], ResolvedAxis))
                 ELSE OverlapOn(born[1], born[2], ResolvedAxis))
     /\ \A k \in (1..3) \ {ResolvedAxis} : body[1].position[k] = born[1].position[k]

----------------------------------------------------------------------------
(* The falling box: a system as new PhysicsSystem() makes it, a non-static
   box of restitution 0.5 created at y = 5, a static floor box of dimensions
   (10, 1, 10) created at the origin, and update(1 / 60) called for ever.
   steps is not kept, so that the run closes on itself once the box rests. *)

FloorDeltaTimeSet == { FromRatio(1, 60) }

InitFloor ==
  /\ gravity = Constructor(<<>>).gravity
  /\ timeScale = Constructor(<<>>).timeScale
  /\ body = << NewBody([position |-> Vec(0, 5, 0), restitution |-> FromRatio(1, 2)], 0),
               NewBody([isStatic |-> TRUE, dimensions |-> Vec(10, 1, 10)], 1) >>
  /\ born = body
  /\ bodies = <<1, 2>>
  /\ colliders = <<>>
  /\ collisionMatrix = [r \in {} |-> EmptyRow]
  /\ coll = <<>>
  /\ last = NoCall
  /\ hist = [key \in {} |-> FALSE]
  /\ heard = NoEvents
  /\ reused = {}
  /\ purged = {}
  /\ steps = 0
  /\ pushes = 0
  /\ removals = 0
  /\ engine = NewEngine
  /\ budget \in BudgetSet /\ budget.pushes > 0

(* update(deltaTime) on the system of the box, handle 1, and the floor,
   handle 2 *)
UpdateFloor(deltaTime) ==
  /\ UpdatedTo(UpdateIn(Working, gravity, timeScale, deltaTime).w,
               SkipStep(deltaTime, timeScale))
  /\ InRange3(body'[1].position)
  /\ InRange3(body'[1].velocity)
  /\ UNCHANGED <<engine, budget, gravity, timeScale, colliders, coll, born, reused, steps,
                 pushes, removals>>

NextFloor == \E deltaTime \in FloorDeltaTimeSet : UpdateFloor(deltaTime)

SpecFloor == InitFloor /\ [][NextFloor]_vars

----------------------------------------------------------------------------
(* C20: no tunnelling in the end-to-end scenario.  A non-static box of
   dimensions (1, 1, 1), mass 1 and restitution 0.5 starting at y = 5 above
   a static floor box at y = 0 of dimensions (10, 1, 10), under gravity
   (0, -9.8, 0) and timeScale 1, stepped with dt = 1 / 60, has
   position.y >= 0.5 after every update call. *)

C20_NoTunnelling == ~FLess(body[1].position[2], FromRatio(1, 2))

(* the box has hit the floor: an update has left it resting on the floor's
   top face, at y = 1, moving up *)
C20_Landed ==
  /\ last.op = "update"
  /\ MatrixGet(MatrixEnsureRow(collisionMatrix, body[1].id), body[1].id, body[2].id) = "true"
  /\ body[1].position[2] = FOne
  /\ FLess(FZero, body[1].velocity[2])

----------------------------------------------------------------------------
(* C21: resolution axis tie-break.  The resolvers pick an axis of minimum
   penetration, and when two or three axes tie for the minimum the tie is
   broken in the order x, then y, then z: x wins a tie against y or z, y
   wins a tie against z.  Stated for _resolveCollision: the body moves on
   the first axis of minimum penetration and on no other. *)

MinimumOn(overlap, k) == \A j \in 1..3 : FLessEq(overlap[k], overlap[j])

FirstMinimumOf(overlap) ==
  CHOOSE k \in 1..3 : MinimumOn(overlap, k) /\ \A j \in 1..(k - 1) : ~MinimumOn(overlap, j)

FirstMinimumAxis(a, b) == FirstMinimumOf(Overlap(a, b))

C21_TieBreakXYZ ==
  last.op = "resolveStatic"
  => /\ body[1].position[FirstMinimumAxis(born[1], born[2])]
          # born[1].position[FirstMinimumAxis(born[1], born[2])]
     /\ \A k \in (1..3) \ {FirstMinimumAxis(born[1], born[2])} :
           body[1].position[k] = born[1].position[k]

----------------------------------------------------------------------------
(* C22: friction acts on the horizontal plane only.  Static resolution
   multiplies the body's velocity.x and velocity.z by
   (1 - bodyFriction * otherFriction) exactly when both frictions are > 0,
   whichever axis was resolved, and otherwise applies no damping;
   velocity.y is changed only when y is the resolved axis, and then only by
   the restitution reflection. *)

(* the velocity component i of the body once reflected on the axis *)
Reflected(b, axis, i) ==
  IF axis = i THEN FMul(FNeg(b.velocity[i]), b.restitution) ELSE b.velocity[i]

(* the damping factor *)
DampingFactor(b, s) ==
  IF FLess(FZero, b.friction) /\ FrictionPositive(s)
  THEN FSub(FOne, FMul(b.friction, s.friction))
  ELSE FOne

C22_FrictionHorizontalOnly ==
  last.op = "resolveStatic"
  => /\ body[1].velocity[1]
          = FMul(Reflected(born[1], ResolvedAxis, 1), DampingFactor(born[1], born[2]))
     /\ body[1].velocity[3]
          = FMul(Reflected(born[1], ResolvedAxis, 3), DampingFactor(born[1], born[2]))
     /\ body[1].velocity[2] = Reflected(born[1], ResolvedAxis, 2)

(* a body moving on x and y, resolved on y against an object with friction:
   velocity.x has been damped, velocity.y reflected *)
C22_DampedOnFloor ==
  /\ last.op = "resolveStatic"
  /\ ResolvedAxis = 2
  /\ FrictionPositive(born[2])
  /\ born[1].velocity[1] # FZero
  /\ born[1].velocity[2] # FZero
  /\ FLess(FAbs(body[1].velocity[1]), FAbs(born[1].velocity[1]))

----------------------------------------------------------------------------
(* _resolveCollisionDynamic on its own for two overlapping boxes at rest,
   placed around several points: relativeVelocity is (0, 0, 0), so
   velocityAlongNormal is 0, the call does not return early, the impulse is
   zero and leaves the velocities as they are, and the bodies are
   separated. *)

DynPlaceSet == { Vec10(x, y, 0) : x \in {-37, -19, 0, 12}, y \in {-13, 0, 21} }

InitRest ==
  /\ gravity = Constructor([gravity |-> Vec(0, -1, 0)]).gravity
  /\ timeScale = Constructor([gravity |-> Vec(0, -1, 0)]).timeScale
  /\ \E offset \in DynOffsetSet, place \in DynPlaceSet :
        body = << NewBody([position |-> Add3(offset, place)], 0),
                  NewBody([position |-> place], 1) >>
  /\ born = body
  /\ bodies = <<1, 2>>
  /\ colliders = <<>>
  /\ collisionMatrix = [r \in {} |-> EmptyRow]
  /\ coll = <<>>
  /\ last = NoCall
  /\ hist = [key \in {} |-> FALSE]
  /\ heard = NoEvents
  /\ reused = {}
  /\ purged = {}
  /\ steps = 0
  /\ pushes = 0
  /\ removals = 0
  /\ engine = NewEngine
  /\ budget \in BudgetSet /\ budget.pushes > 0

NextRest == ResolveDynamic

SpecRest == InitRest /\ [][NextRest]_vars

----------------------------------------------------------------------------
(* C23: dynamic separation.  When _resolveCollisionDynamic(A, B) does not
   abort for two overlapping bodies, A and B are each moved by half the
   penetration of the chosen axis, in opposite directions along that axis
   only, so that the midpoint of their centres is unchanged and
   checkCollision(A, B) is false afterwards. *)

SeparatedAxis == SmallestAxis(Overlap(born[1], born[2]))

(* direction * moveAmount, moveAmount = overlap.k / 2 *)
Move(A, B, k) == Directed(A, B, k, FHalf(OverlapOn(A, B, k)))

C23_DynamicSeparation ==
  (last.op = "resolveDynamic" /\ CheckCollision(born[1], born[2]))
  => /\ body[1].position[SeparatedAxis]
          = FAdd(born[1].position[SeparatedAxis], Move(born[1], born[2], SeparatedAxis))
     /\ body[2].position[SeparatedAxis]
          = FSub(born[2].position[SeparatedAxis], Move(born[1], born[2], SeparatedAxis))
     /\ \A k \in (1..3) \ {SeparatedAxis} :
           /\ body[1].position[k] = born[1].position[k]
           /\ body[2].position[k] = born[2].position[k]
     /\ ~CheckCollision(body[1], body[2])

----------------------------------------------------------------------------
(* C24: forces do not persist.  After every update that is not skipped the
   acceleration of every registered non-static body is (0, 0, 0); a force
   given to applyForce changes the body's velocity in exactly one update,
   the next one that is not skipped, and in no later update.  Stated step
   by step: an update that runs adds (acceleration + gravity) * scaledDelta
   to the velocity of a body it finds in no contact, acceleration being
   what applyForce has accumulated since the update before, and leaves the
   acceleration zero. *)

(* how many times this.bodies holds the object h: forEach integrates it once
   per occurrence *)
Occurrences(h) == Cardinality({ i \in DOMAIN bodies : bodies[i] = h })

(* the velocity component v after n integrations of the same step: the first
   adds (a + g) * scaledDelta and resets the acceleration, each later one
   adds g * scaledDelta *)
RECURSIVE Integrated(_, _, _, _, _)
Integrated(v, a, g, scaledDelta, n) ==
  IF n = 0 THEN v
  ELSE Integrated(FAdd(v, FMul(FAdd(a, g), scaledDelta)), FZero, g, scaledDelta, n - 1)

(* the step added (a + gravity) * deltaTime * timeScale to the velocity of
   h, and gravity * deltaTime * timeScale once more for every further
   occurrence of h in this.bodies *)
VelocityGained(h, a, deltaTime) ==
  \A k \in 1..3 :
     body'[h].velocity[k]
       = Integrated(body[h].velocity[k], a[k], gravity[k], FMul(deltaTime, timeScale),
                    Occurrences(h))

C24_ForcesDoNotPersist ==
  [][RanStep =>
       \A h \in Range(bodies) :
          ~body[h].isStatic
          => /\ body'[h].acceleration = Zero3
             /\ NoContact(last', h)
                => \E deltaTime \in DeltaTimeSet :
                      /\ ~SkipStep(deltaTime, timeScale)
                      /\ VelocityGained(h, body[h].acceleration, deltaTime)
             /\ (NoContact(last', h) /\ last.op = "update" /\ ~last.skipped)
                => \E deltaTime \in DeltaTimeSet :
                      /\ ~SkipStep(deltaTime, timeScale)
                      /\ VelocityGained(h, Zero3, deltaTime)]_vars

(* two updates have run and one force (0, 1, 0) was applied to a body of
   mass 1 under gravity (0, -1, 0): the force has cancelled gravity in one
   of the two updates and not in the other *)
C24_ForceActedOnce ==
  /\ last.op = "update"
  /\ ~last.skipped
  /\ steps = 2
  /\ pushes = 1
  /\ \E h \in Range(bodies) :
        /\ ~body[h].isStatic
        /\ body[h].velocity = Vec(0, -1, 0)
        /\ body[h].acceleration = Zero3

----------------------------------------------------------------------------
(* C25: static resolution never turns a body back into the obstacle.  After
   _resolveCollision(body, staticObj) resolves on axis k, the body's
   velocity component on k is zero or points away from staticObj's centre,
   also when the body was already moving out of the obstacle before the
   call. *)

(* v is zero or has the sign of direction = a.position.k < b.position.k ? -1 : 1 *)
PointsAway(a, b, k, v) ==
  IF FLess(a.position[k], b.position[k]) THEN FLessEq(v, FZero) ELSE FLessEq(FZero, v)

C25_NeverTurnedBack ==
  last.op = "resolveStatic"
  => PointsAway(born[1], born[2], ResolvedAxis, body[1].velocity[ResolvedAxis])

----------------------------------------------------------------------------
(* C26: collider events stay well-formed under registry changes.  Across
   any sequence of createCollider / removeCollider / createBody /
   removeBody / update calls with generated ids, a pass gives a collider C
   a Stay or an Exit callback with body A only if C was given an Enter with
   A earlier and no Exit with A since, and gives C no Enter with A while A
   has overlapped C at every pass since the Enter before. *)

CallbacksWellFormed(events, H) ==
  /\ Delivered(events, StayCallbacks \cup ExitCallbacks) \subseteq H.entered
  /\ Delivered(events, EnterCallbacks) \cap H.held = {}

C26_EventsWellFormed ==
  [][(CreatedOnly /\ RanStep) => CallbacksWellFormed(last'.events, heard)]_vars

----------------------------------------------------------------------------
(* The engine with the example scene, as index.js sets it up: new Engine,
   new ExampleScene(engine), engine.setActiveScene(mainScene), and then
   start(), the animation frames and the key events of the window.  The
   physics system holds the four bodies of _setupObjects, in the order of
   their createBody calls: the ground body[1], the centre cube body[2], the
   sphere body[3] and the cylinder body[4]. *)

(* the key codes of the events the model delivers *)
KeySet == { "Space" }

(* the keydown and keyup listeners of _setupKeyboardEvents *)
KeyDownEvent(im, code) == [im EXCEPT !.keys = @ \cup {code}]

KeyUpEvent(im, code) == [im EXCEPT !.keys = @ \ {code}]

(* update() *)
InputUpdate(im) == [im EXCEPT !.previousKeys = im.keys]

IsKeyDown(im, code) == code \in im.keys

IsKeyPressed(im, code) == code \in im.keys /\ code \notin im.previousKeys

(* setActiveScene(scene) *)
SetActiveScene(e) == [e EXCEPT !.activeScene = TRUE]

(* the createBody options of _setupObjects *)
GroundBodyOptions == [position |-> Vec(0, 0, 0), isStatic |-> TRUE, dimensions |-> Vec(40, 1, 40)]

CenterCubeBodyOptions == [position |-> Vec(0, 1, 0), dimensions |-> Vec(2, 2, 2), mass |-> FOne]

SphereBodyOptions == [position |-> Vec(4, 1, 4), dimensions |-> Vec(2, 2, 2), mass |-> FOne]

CylinderBodyOptions ==
  [position |-> <<FromRatio(-4, 1), FromRatio(125, 100), FromRatio(-4, 1)>>,
   dimensions |-> <<FromRatio(15, 10), FromRatio(25, 10), FromRatio(15, 10)>>,
   mass |-> FOne]

(* the handles of the scene's bodies *)
SceneBody == [ground |-> 1, centerCube |-> 2, sphere |-> 3, cylinder |-> 4]

(* Math.sin(x) for |x| < pi / 4, as V8 and SpiderMonkey compute it: the
   kernel of fdlibm, x + x^3 * (S1 + x^2 * (S2 + ... + x^2 * S6)), and x
   itself below 2^-27 *)
SinCoefficient ==
  << [s |-> 1, m |-> <<21833, 10922, 21845, 170>>, e |-> -55],
     [s |-> 0, m |-> <<30886, 8737, 17476, 136>>, e |-> -59],
     [s |-> 1, m |-> <<25045, 13186, 1664, 208>>, e |-> -65],
     [s |-> 0, m |-> <<32381, 12131, 30605, 184>>, e |-> -71],
     [s |-> 1, m |-> <<7403, 5207, 6042, 215>>, e |-> -78],
     [s |-> 0, m |-> <<21884, 13727, 25833, 174>>, e |-> -85] >>

SinSeries(z) ==
  FAdd(SinCoefficient[2],
       FMul(z, FAdd(SinCoefficient[3],
                    FMul(z, FAdd(SinCoefficient[4],
                                 FMul(z, FAdd(SinCoefficient[5],
                                              FMul(z, SinCoefficient[6]))))))))

KernelSin(x, z) == FAdd(x, FMul(FMul(z, x), FAdd(SinCoefficient[1], FMul(z, SinSeries(z)))))

Sin(x) ==
  IF IsZero(x) THEN x
  ELSE IF x.e + 52 < -27 THEN x
  ELSE KernelSin(x, FMul(x, x))

(* the arguments Sin is defined for *)
SinDefinedAt(x) == FLess(FAbs(x), FromRatio(3, 4))

(* this.centerCube.position, which nothing moves *)
CenterCubePosition == Vec(0, 1, 0)

(* this.sphere.position after sphere.position.y = 1 + Math.abs(Math.sin(elapsedTime * 2)) * 2 *)
SpherePosition(elapsedTime) ==
  <<FromRatio(4, 1),
    FAdd(FOne, FMul(FAbs(Sin(FMul(elapsedTime, FromRatio(2, 1)))), FromRatio(2, 1))),
    FromRatio(4, 1)>>

(* this.cylinder.position, which nothing moves *)
CylinderPosition == <<FromRatio(-4, 1), FromRatio(125, 100), FromRatio(-4, 1)>>

(* new THREE.Vector3(0, 10, 0) *)
SpaceImpulse == Vec(0, 10, 0)

(* this.deltaTime of animate(): in start(), where lastTime has just been
   read, and in an animation-frame callback *)
StartDeltaTimeSet == { FZero }

SceneDeltaTimeSet == { FromRatio(1, 60) }

(* _handleInput(deltaTime) on the cube's body b *)
HandleInput(b, im) ==
  IF IsKeyPressed(im, "Space") THEN ApplyImpulseTo(b, SpaceImpulse, TRUE).body ELSE b

(* ExampleScene.update(deltaTime, elapsedTime) on the bodies B: the sphere's,
   the cube's and the cylinder's body take their mesh's position, no mesh
   has a userData.physicsBody, and _handleInput gives the cube the impulse
   when Space is pressed *)
SceneUpdate(B, im, elapsedTime) ==
  [B EXCEPT ![SceneBody.sphere].position = SpherePosition(elapsedTime),
            ![SceneBody.centerCube] = HandleInput([@ EXCEPT !.position = CenterCubePosition], im),
            ![SceneBody.cylinder].position = CylinderPosition]

(* the calls animate() makes, in order *)
AnimateLog(e) ==
  <<"physicsSystem.update">>
  \o (IF e.activeScene THEN <<"activeScene.update">> ELSE <<>>)
  \o (IF e.activeScene /\ IsKeyPressed(e.inputManager, "Space")
      THEN <<"centerCubeBody.applyImpulse">> ELSE <<>>)

(* the engine e after animate(), when it is running *)
Animated(e, deltaTime, counted) ==
  [e EXCEPT !.requests = @ + 1,
            !.calls = IF counted THEN @ + 1 ELSE @,
            !.elapsedTime = FAdd(@, deltaTime),
            !.log = AnimateLog(e),
            !.held = IF e.activeScene /\ IsKeyDown(e.inputManager, "Space") THEN @ + 1 ELSE 0]

(* the working state W of physicsSystem.update after activeScene.update *)
AfterScene(W, e, elapsedTime) ==
  IF e.activeScene /\ W.finite
  THEN [W EXCEPT !.body = SceneUpdate(@, e.inputManager, elapsedTime)]
  ELSE W

(* every number of the bodies B is a finite double *)
AllInRange(B) ==
  \A h \in 1..Len(B) : InRange3(B[h].position) /\ InRange3(B[h].velocity)

(* animate() on the engine e, then, if thenInit, activeScene.init(); counted: the call is an animation-frame callback *)
SceneAnimateAs(e, deltaTime, counted, thenInit) ==
  IF ~e.isRunning
  THEN /\ engine' = [e EXCEPT !.log = <<>>]
       /\ UNCHANGED <<bodies, body, collisionMatrix, purged, hist, heard, steps, last>>
  ELSE /\ SinDefinedAt(FMul(FAdd(e.elapsedTime, deltaTime), FromRatio(2, 1)))
       /\ UpdatedTo(AfterScene(UpdateIn(Working, gravity, timeScale, deltaTime).w, e,
                               FAdd(e.elapsedTime, deltaTime)),
                    SkipStep(deltaTime, timeScale))
       /\ AllInRange(body')
       /\ steps' = IF SkipStep(deltaTime, timeScale) THEN steps ELSE steps + 1
       /\ engine' = IF thenInit /\ e.activeScene
                    THEN [Animated(e, deltaTime, counted)
                            EXCEPT !.log = Append(@, "activeScene.init"), !.inits = @ + 1]
                    ELSE Animated(e, deltaTime, counted)

InitScene ==
  /\ gravity = Constructor(<<>>).gravity
  /\ timeScale = Constructor(<<>>).timeScale
  /\ body = << NewBody(GroundBodyOptions, 0), NewBody(CenterCubeBodyOptions, 1),
               NewBody(SphereBodyOptions, 2), NewBody(CylinderBodyOptions, 3) >>
  /\ born = body
  /\ bodies = <<1, 2, 3, 4>>
  /\ colliders = <<>>
  /\ collisionMatrix = [r \in {} |-> EmptyRow]
  /\ coll = <<>>
  /\ last = NoCall
  /\ hist = [key \in {} |-> FALSE]
  /\ heard = NoEvents
  /\ reused = {}
  /\ purged = {}
  /\ steps = 0
  /\ pushes = 0
  /\ removals = 0
  /\ engine = SetActiveScene(NewEngine)
  /\ budget \in BudgetSet /\ budget.pushes > 0

(* start(): animate() and then activeScene.init() *)
SceneStart(deltaTime) ==
  /\ engine.queue = 0
  /\ engine.starts < MaxSceneStarts
  /\ IF engine.isRunning
     THEN /\ engine' = [engine EXCEPT !.starts = @ + 1, !.log = <<>>]
          /\ UNCHANGED <<bodies, body, collisionMatrix, purged, hist, heard, steps, last>>
     ELSE SceneAnimateAs([engine EXCEPT !.isRunning = TRUE, !.starts = @ + 1], deltaTime,
                         FALSE, TRUE)
  /\ UNCHANGED <<budget, gravity, timeScale, colliders, coll, born, reused, pushes, removals>>

(* stop() *)
SceneStop ==
  /\ engine.queue = 0
  /\ engine' = [engine EXCEPT !.isRunning = FALSE, !.log = <<>>]
  /\ UNCHANGED <<budget, gravity, timeScale, bodies, colliders, collisionMatrix, body, coll,
                 last, hist, heard, born, reused, purged, steps, pushes, removals>>

(* the browser begins an animation frame *)
SceneAnimationFrame ==
  /\ engine.queue = 0
  /\ engine.requests > 0
  /\ engine.frames < MaxSceneFrames
  /\ engine' = [engine EXCEPT !.queue = engine.requests, !.requests = 0,
                              !.frames = @ + 1, !.calls = 0, !.log = <<>>]
  /\ UNCHANGED <<budget, gravity, timeScale, bodies, colliders, collisionMatrix, body, coll,
                 last, hist, heard, born, reused, purged, steps, pushes, removals>>

(* the animation frame runs its next callback, this.animate.bind(this) *)
SceneAnimateCallback(deltaTime) ==
  /\ engine.queue > 0
  /\ SceneAnimateAs([engine EXCEPT !.queue = @ - 1], deltaTime, TRUE, FALSE)
  /\ UNCHANGED <<budget, gravity, timeScale, colliders, coll, born, reused, pushes, removals>>

(* a keydown event of the window, between two callbacks' runs *)
KeyDown(code) ==
  /\ engine.queue = 0
  /\ engine' = [engine EXCEPT !.inputManager = KeyDownEvent(@, code),
                              !.held = IF code = "Space" /\ ~IsKeyDown(engine.inputManager, code)
                                       THEN 0 ELSE @,
                              !.log = <<>>]
  /\ UNCHANGED <<budget, gravity, timeScale, bodies, colliders, collisionMatrix, body, coll,
                 last, hist, heard, born, reused, purged, steps, pushes, removals>>

(* a keyup event of the window *)
KeyUp(code) ==
  /\ engine.queue = 0
  /\ engine' = [engine EXCEPT !.inputManager = KeyUpEvent(@, code),
                              !.held = IF code = "Space" THEN 0 ELSE @,
                              !.log = <<>>]
  /\ UNCHANGED <<budget, gravity, timeScale, bodies, colliders, collisionMatrix, body, coll,
                 last, hist, heard, born, reused, purged, steps, pushes, removals>>

(* engine.inputManager.update(), called by code outside the repository:
   neither the engine nor the scene calls it *)
InputManagerUpdate ==
  /\ engine.queue = 0
  /\ engine' = [engine EXCEPT !.inputManager = InputUpdate(@), !.log = <<>>]
  /\ UNCHANGED <<budget, gravity, timeScale, bodies, colliders, collisionMatrix, body, coll,
                 last, hist, heard, born, reused, purged, steps, pushes, removals>>

NextScene ==
  \/ \E deltaTime \in StartDeltaTimeSet : SceneStart(deltaTime)
  \/ SceneStop
  \/ SceneAnimationFrame
  \/ \E deltaTime \in SceneDeltaTimeSet : SceneAnimateCallback(deltaTime)
  \/ \E code \in KeySet : KeyDown(code)
  \/ \E code \in KeySet : KeyUp(code)
  \/ InputManagerUpdate

SpecScene == InitScene /\ [][NextScene]_vars

----------------------------------------------------------------------------
(* C27: scene initialisation precedes the first frame.  After
   Engine.start() with an active scene set, activeScene.init() is called
   before the first activeScene.update(...) and before the first
   physicsSystem.update(...): every such update call the engine makes comes
   after a call of activeScene.init(). *)

UpdateCalls == { "physicsSystem.update", "activeScene.update" }

InitCalledBefore(log, inits, n) ==
  inits > 0 \/ \E m \in 1..(n - 1) : log[m] = "activeScene.init"

C27_InitBeforeFirstFrame ==
  [][\A n \in 1..Len(engine'.log) :
        engine'.log[n] \in UpdateCalls => InitCalledBefore(engine'.log, engine.inits, n)]_vars

----------------------------------------------------------------------------
(* C28: key press is edge-triggered in the running engine.  While the
   Engine loop runs, for a key held down continuously over several frames
   InputManager.isKeyPressed(key) is true in at most the first of those
   frames, so ExampleScene applies its Space impulse once per key press: a
   frame that finds Space down after an earlier frame of the same hold does
   not call centerCubeBody.applyImpulse. *)

HeldSinceEarlierFrame == engine.held > 0 /\ IsKeyDown(engine.inputManager, "Space")

C28_PressedOncePerHold ==
  [][HeldSinceEarlierFrame
       => \A n \in 1..Len(engine'.log) : engine'.log[n] # "centerCubeBody.applyImpulse"]_vars

----------------------------------------------------------------------------
(* applyForce and applyImpulse on their own: one body, of any of several
   masses, static or not, and a caller holding one vector, last.arg, which
   it passes to every call it makes, as a THREE.Vector3 or as a plain
   { x, y, z } object. *)

PushMassSet == { FromRatio(1, 2), FOne, FromRatio(2, 1) }

PushVectorSet == { Vec(0, 2, 0), Vec(2, 0, -2), Vec(0, -1, 0) }

PushBudget ==
  [bodies |-> 1, colliders |-> 0, objects |-> 1, steps |-> 0, pushes |-> MaxPushes + 1,
   removals |-> 0, adds |-> 0]

InitPush ==
  /\ gravity = Constructor(<<>>).gravity
  /\ timeScale = Constructor(<<>>).timeScale
  /\ \E mass \in PushMassSet, isStatic \in BOOLEAN :
        body = << NewBody([mass |-> mass, isStatic |-> isStatic], 0) >>
  /\ born = body
  /\ bodies = <<1>>
  /\ colliders = <<>>
  /\ collisionMatrix = [r \in {} |-> EmptyRow]
  /\ coll = <<>>
  /\ \E v \in PushVectorSet : last = [NoCall EXCEPT !.arg = v]
  /\ hist = [key \in {} |-> FALSE]
  /\ heard = NoEvents
  /\ reused = {}
  /\ purged = {}
  /\ steps = 0
  /\ pushes = 0
  /\ removals = 0
  /\ engine = NewEngine
  /\ budget = PushBudget

NextPush ==
  \/ \E isVector3 \in BOOLEAN : ApplyForce(1, last.arg, isVector3)
  \/ \E isVector3 \in BOOLEAN : ApplyImpulse(1, last.arg, isVector3)

SpecPush == InitPush /\ [][NextPush]_vars

----------------------------------------------------------------------------
(* C29: applyForce and applyImpulse leave the caller's vector unchanged.
   For any body (any mass > 0, static or not) and any vector argument, the
   argument's x, y, z after the call equal their values before it; only the
   body's acceleration (applyForce) or velocity (applyImpulse) changes, by
   argument / mass, and nothing changes when the body is static. *)

(* the body h gained v / mass on field f and kept its other fields *)
GainedOnly(h, f, v) ==
  /\ \A k \in 1..3 : body'[h][f][k] = FAdd(body[h][f][k], FDiv(v[k], body[h].mass))
  /\ [body'[h] EXCEPT ![f] = body[h][f]] = body[h]

PushedAsSpecified(h, v) ==
  /\ last'.arg = v
  /\ IF body[h].isStatic THEN body'[h] = body[h]
     ELSE IF last'.op = "applyForce" THEN GainedOnly(h, "acceleration", v)
     ELSE GainedOnly(h, "velocity", v)

C29_ArgumentUnchanged ==
  [][last'.op \in {"applyForce", "applyImpulse"} => PushedAsSpecified(last'.h, last.arg)]_vars

----------------------------------------------------------------------------
(* The engine's AudioManager on its own.  tracks lists the THREE.Audio
   objects createMusic made, in the order it made them, and a track is
   spoken of by its place in that list: isPlaying as play(), stop() and
   pause() leave it, volume the value setVolume was given last, gain the
   value getVolume() returns, baseVolume its _baseVolume, buffer whether
   setBuffer gave it an AudioBuffer.  THREE.Audio is not part of the
   repository: whether getVolume() returns the value of a setVolume made
   earlier in the same call depends on it.  atOnce tells which: TRUE when
   setVolume takes effect at once, FALSE when it takes effect at a later
   rendering of the audio thread, getVolume() returning the value of before
   until then.  music maps
   the registered ids to their tracks, currentMusic is a track or 0 for
   null, fades lists the setInterval timers of _crossfadeMusic still
   running, returned is what the last playMusic returned (0 for null),
   calls counts the playMusic and stopMusic calls made and changes the
   other calls and the renderings.  No sound is created: this.sounds stays empty. *)

(* const steps = 60 *)
FadeSteps == 60

NewAudioManager ==
  [tracks |-> <<>>, music |-> <<>>, masterVolume |-> FOne, soundVolume |-> FOne,
   musicVolume |-> FromRatio(7, 10), muted |-> FALSE, currentMusic |-> 0,
   fades |-> <<>>, returned |-> 0, calls |-> 0, changes |-> 0, atOnce |-> TRUE]

(* this.audioManager = new AudioManager() *)
WithAudioManager(e) == e @@ [audioManager |-> NewAudioManager]

(* Object.values(this.music) *)
MusicValues(am) == {am.music[id] : id \in DOMAIN am.music}

(* THREE.Audio.play(): nothing when the track is playing already *)
PlayTrack(am, h) == [am EXCEPT !.tracks[h].isPlaying = TRUE]

(* THREE.Audio.stop() *)
StopTrack(am, h) == [am EXCEPT !.tracks[h].isPlaying = FALSE]

(* THREE.Audio.setVolume(value) *)
SetVolume(am, h, value) ==
  [am EXCEPT !.tracks[h].volume = value,
             !.tracks[h].gain = IF am.atOnce THEN value ELSE @]

(* THREE.Audio.getVolume() *)
GetVolume(am, h) == am.tracks[h].gain

(* new THREE.Audio(this.listener), setBuffer(buffer) and setLoop(loop): the
   gain of a new track is 1 *)
NewTrack(buffer, loop) ==
  [isPlaying |-> FALSE, volume |-> FOne, gain |-> FOne, baseVolume |-> FOne,
   loop |-> loop, buffer |-> buffer]

(* music._baseVolume = music.getVolume() *)
WithBaseVolume(am, h) == [am EXCEPT !.tracks[h].baseVolume = GetVolume(am, h)]

(* music._baseVolume * this.musicVolume * this.masterVolume *)
MusicVolume(am, h) == FMul(FMul(am.tracks[h].baseVolume, am.musicVolume), am.masterVolume)

(* _applyMusicVolume(music) *)
ApplyMusicVolume(am, h) == SetVolume(am, h, IF am.muted THEN FZero ELSE MusicVolume(am, h))

(* _updateMusicVolumes(), and _updateAllVolumes() while there is no sound *)
UpdateMusicVolumes(am) ==
  [am EXCEPT !.tracks =
     [h \in DOMAIN @ |-> IF h \in MusicValues(am) THEN ApplyMusicVolume(am, h).tracks[h] ELSE @[h]]]

(* THREE.MathUtils.clamp(volume, 0, 1) = Math.max(0, Math.min(1, volume)) *)
Clamp(volume) ==
  IF FLess(FMin(FOne, volume), FZero) THEN FZero ELSE FMin(FOne, volume)

(* createMusic(id, buffer, options): buffer tells whether the caller gave
   an AudioBuffer *)
CreateMusicIn(am, id, buffer, options) ==
  [ApplyMusicVolume(
     WithBaseVolume(
       SetVolume([am EXCEPT !.tracks = Append(@, NewTrack(buffer, OrObject(options, "loop", TRUE)))],
                 Len(am.tracks) + 1, OrObject(options, "volume", FOne)),
       Len(am.tracks) + 1),
     Len(am.tracks) + 1)
     EXCEPT !.music = (id :> (Len(am.tracks) + 1)) @@ @]

(* _crossfadeMusic(fromMusic, toMusic, duration) up to setInterval *)
CrossfadeMusic(am, from, to) ==
  [PlayTrack(SetVolume(am, to, FZero), to)
     EXCEPT !.fades = Append(@, [from |-> from, to |-> to, step |-> 0,
                                 fromBaseVolume |-> GetVolume(am, from),
                                 toBaseVolume |-> MusicVolume(am, to)])]

(* the two setVolume calls of the interval callback of the fade f, at step *)
Faded(am, f, step) ==
  SetVolume(SetVolume(am, f.from,
                      FMul(f.fromBaseVolume, FSub(FOne, FromRatio(step, FadeSteps)))),
            f.to, FMul(f.toBaseVolume, FromRatio(step, FadeSteps)))

(* the interval callback of the n-th running fade *)
FadeCallback(am, n) ==
  IF am.fades[n].step + 1 >= FadeSteps
  THEN [SetVolume(StopTrack(Faded(am, am.fades[n], am.fades[n].step + 1), am.fades[n].from),
                  am.fades[n].to, am.fades[n].toBaseVolume)
          EXCEPT !.fades = Splice(@, n)]
  ELSE [Faded(am, am.fades[n], am.fades[n].step + 1) EXCEPT !.fades[n].step = @ + 1]

(* "Stop currently playing music with optional crossfade", music being the
   track asked for *)
StopCurrent(am, music, options) ==
  IF am.currentMusic # 0 /\ am.tracks[am.currentMusic].isPlaying
  THEN IF Truthy(options, "crossfade")
       THEN CrossfadeMusic(am, am.currentMusic, music)
       ELSE StopTrack(am, am.currentMusic)
  ELSE am

(* playMusic(id, options) *)
PlayMusicIn(am, id, options) ==
  IF id \notin DOMAIN am.music
  THEN [am EXCEPT !.returned = 0]
  ELSE [(IF ~Truthy(options, "crossfade")
         THEN PlayTrack(StopCurrent(am, am.music[id], options), am.music[id])
         ELSE StopCurrent(am, am.music[id], options))
          EXCEPT !.currentMusic = am.music[id], !.returned = am.music[id]]

(* stopMusic(id); id is "" when omitted *)
StopMusicIn(am, id) ==
  IF id = "" /\ am.currentMusic # 0
  THEN [StopTrack(am, am.currentMusic) EXCEPT !.currentMusic = 0]
  ELSE IF id \notin DOMAIN am.music
  THEN am
  ELSE [StopTrack(am, am.music[id]) EXCEPT !.currentMusic = IF @ = am.music[id] THEN 0 ELSE @]

(* stopAll() *)
StopAllIn(am) ==
  [am EXCEPT !.tracks = [h \in DOMAIN @ |-> IF h \in MusicValues(am)
                                            THEN [@[h] EXCEPT !.isPlaying = FALSE]
                                            ELSE @[h]],
             !.currentMusic = 0]

MusicIdSet == { "theme", "battle", "missing" }

PlayOptionSet == { <<>>, [crossfade |-> TRUE], [crossfade |-> TRUE, crossfadeDuration |-> FromRatio(2, 1)] }

MusicOptionSet == { <<>>, [volume |-> FromRatio(1, 2), loop |-> FALSE] }

VolumeSet == { FNeg(FromRatio(1, 2)), FromRatio(1, 5), FromRatio(1, 2), FromRatio(3, 2) }

InitAudio ==
  /\ gravity = Constructor(<<>>).gravity
  /\ timeScale = Constructor(<<>>).timeScale
  /\ bodies = <<>>
  /\ colliders = <<>>
  /\ collisionMatrix = [r \in {} |-> EmptyRow]
  /\ body = <<>>
  /\ coll = <<>>
  /\ last = NoCall
  /\ hist = [key \in {} |-> FALSE]
  /\ heard = NoEvents
  /\ born = <<>>
  /\ reused = {}
  /\ purged = {}
  /\ steps = 0
  /\ pushes = 0
  /\ removals = 0
  /\ \E atOnce \in BOOLEAN :
        engine = [WithAudioManager(NewEngine) EXCEPT !.audioManager =
                    CreateMusicIn(CreateMusicIn([@ EXCEPT !.atOnce = atOnce], "theme", TRUE, <<>>),
                                  "battle", TRUE, [volume |-> FromRatio(1, 2), loop |-> FALSE])]
  /\ budget = PushBudget

(* a step of the audio manager to am, the call being op *)
AudioAs(op, am) ==
  /\ engine' = [engine EXCEPT !.audioManager = am]
  /\ last' = [NoCall EXCEPT !.op = op]
  /\ UNCHANGED <<budget, gravity, timeScale, bodies, colliders, collisionMatrix, body, coll,
                 hist, heard, born, reused, purged, steps, pushes, removals>>

PlayMusic(id, options) ==
  /\ engine.audioManager.calls < MaxAudioCalls
  /\ AudioAs("playMusic",
             [PlayMusicIn(engine.audioManager, id, options) EXCEPT !.calls = @ + 1])

StopMusic(id) ==
  /\ engine.audioManager.calls < MaxAudioCalls
  /\ AudioAs("stopMusic", [StopMusicIn(engine.audioManager, id) EXCEPT !.calls = @ + 1])

(* a call of createMusic after the set-up *)
CreateMusic(id, buffer, options) ==
  /\ engine.audioManager.changes < MaxAudioChanges
  /\ AudioAs("createMusic",
             [CreateMusicIn(engine.audioManager, id, buffer, options) EXCEPT !.changes = @ + 1])

SetMasterVolume(volume) ==
  /\ engine.audioManager.changes < MaxAudioChanges
  /\ AudioAs("setMasterVolume",
             UpdateMusicVolumes([engine.audioManager EXCEPT !.masterVolume = Clamp(volume),
                                                            !.changes = @ + 1]))

(* setSoundVolume(volume): _updateSoundVolumes() finds no sound *)
SetSoundVolume(volume) ==
  /\ engine.audioManager.changes < MaxAudioChanges
  /\ AudioAs("setSoundVolume",
             [engine.audioManager EXCEPT !.soundVolume = Clamp(volume), !.changes = @ + 1])

SetMusicVolume(volume) ==
  /\ engine.audioManager.changes < MaxAudioChanges
  /\ AudioAs("setMusicVolume",
             UpdateMusicVolumes([engine.audioManager EXCEPT !.musicVolume = Clamp(volume),
                                                            !.changes = @ + 1]))

SetMuted(muted) ==
  /\ engine.audioManager.changes < MaxAudioChanges
  /\ AudioAs("setMuted",
             UpdateMusicVolumes([engine.audioManager EXCEPT !.muted = muted, !.changes = @ + 1]))

StopAll ==
  /\ engine.audioManager.changes < MaxAudioChanges
  /\ AudioAs("stopAll", [StopAllIn(engine.audioManager) EXCEPT !.changes = @ + 1])

(* pauseAll(): THREE.Audio.pause() on the registered tracks that are
   playing *)
PauseAll ==
  /\ engine.audioManager.changes < MaxAudioChanges
  /\ AudioAs("pauseAll",
             [engine.audioManager EXCEPT
                !.tracks = [h \in DOMAIN @ |-> IF h \in MusicValues(engine.audioManager)
                                               THEN [@[h] EXCEPT !.isPlaying = FALSE]
                                               ELSE @[h]],
                !.changes = @ + 1])

(* resumeAll(): if (music.buffer && !music.isPlaying) music.play() *)
ResumeAll ==
  /\ engine.audioManager.changes < MaxAudioChanges
  /\ AudioAs("resumeAll",
             [engine.audioManager EXCEPT
                !.tracks = [h \in DOMAIN @ |->
                              IF h \in MusicValues(engine.audioManager) /\ @[h].buffer
                              THEN [@[h] EXCEPT !.isPlaying = TRUE]
                              ELSE @[h]],
                !.changes = @ + 1])

(* dispose(): stopAll(), this.music = {}, this.currentMusic = null *)
Dispose ==
  /\ engine.audioManager.changes < MaxAudioChanges
  /\ AudioAs("dispose",
             [StopAllIn(engine.audioManager) EXCEPT !.music = <<>>, !.currentMusic = 0,
                                                    !.changes = @ + 1])

(* a tick of the timer of a running fade *)
FadeTick(n) ==
  /\ n \in 1..Len(engine.audioManager.fades)
  /\ AudioAs("fade", FadeCallback(engine.audioManager, n))

(* a rendering of the audio thread, at any time: the volumes set take
   effect *)
Render ==
  /\ engine.audioManager.changes < MaxAudioChanges
  /\ AudioAs("render",
             [engine.audioManager EXCEPT
                !.tracks = [h \in DOMAIN @ |->
                              [@[h] EXCEPT !.gain = engine.audioManager.tracks[h].volume]],
                !.changes = @ + 1])

NextAudio ==
  \/ \E id \in MusicIdSet, options \in PlayOptionSet : PlayMusic(id, options)
  \/ \E id \in MusicIdSet \cup {""} : StopMusic(id)
  \/ \E id \in MusicIdSet, buffer \in BOOLEAN, options \in MusicOptionSet :
        CreateMusic(id, buffer, options)
  \/ \E volume \in VolumeSet : SetMasterVolume(volume)
  \/ \E volume \in VolumeSet : SetSoundVolume(volume)
  \/ \E volume \in VolumeSet : SetMusicVolume(volume)
  \/ \E muted \in BOOLEAN : SetMuted(muted)
  \/ StopAll
  \/ PauseAll
  \/ ResumeAll
  \/ Dispose
  \/ \E n \in 1..MaxAudioCalls : FadeTick(n)
  \/ Render

SpecAudio == InitAudio /\ [][NextAudio]_vars

----------------------------------------------------------------------------
(* C30: playMusic starts the requested track.  For any registered music id
   and any options (with or without crossfade, with or without another
   track currently playing), after AudioManager.playMusic(id, options)
   returns, the track it returned is playing and is currentMusic. *)

C30_RequestedTrackPlays ==
  (last.op = "playMusic" /\ engine.audioManager.returned # 0)
  => /\ engine.audioManager.tracks[engine.audioManager.returned].isPlaying
     /\ engine.audioManager.currentMusic = engine.audioManager.returned
====
